---- MODULE Spec2Model ----
(***************************************************************************)
(* Sentiment pipeline of the brand sentiment monitor:                      *)
(*   clean_text -> textblob_sentiment / vader_sentiment ->                 *)
(*   ensemble_sentiment -> analyze_batch -> confidence filter ->           *)
(*   get_summary_stats                                                     *)
(* modelled from src/src/sentiment_analyzer.py (single scorer),            *)
(* src/src/sentiment_analyzer_full.py (two scorers) and src/app.py.        *)
(*                                                                         *)
(* Numbers.  Polarities, compound scores, confidences and thresholds are   *)
(* integers in units of 0.025, so 1.0 is ONE = 40.  The scoring libraries  *)
(* are sampled on the grid of even values (steps of 0.05), which makes the *)
(* mean of two confidences, (a + b) / 2, an integer of the same unit.      *)
(*                                                                         *)
(* Text.  A Python str is a sequence of one-character strings.             *)
(***************************************************************************)
EXTENDS Integers, Sequences, FiniteSets, TLC

VARIABLES
    call,            \* the pending invocation of a pure function (name and arguments)
    result,          \* what the invocation returned, None before it ran
    config,          \* the Config object handed to SentimentAnalyzer.__init__
    variant,         \* which analyzer module is imported: "simple" or "full"
    textblob_model,  \* TextBlob as observed so far: cleaned text -> Returns(polarity) or Raises
    vader_model,     \* VADER as observed so far: cleaned text -> Returns(compound) or Raises
    data,            \* the raw items handed to analyze_batch
    confidence_threshold, \* the value of the confidence slider read by the request
    analysis_df,     \* the DataFrame returned by analyze_batch (then filtered)
    summary_stats,   \* the dict returned by get_summary_stats
    pc,              \* position of the request: which call comes next
    session_state,   \* st.session_state of every browser session of the app
    widgets,         \* the widget values of every session, kept between reruns
    script,          \* every session's script run: its position, its locals, what it did
    temp_upload      \* the file RAW_DATA_DIR/temp_upload.csv, one for all sessions

vars == <<call, result, config, variant, textblob_model, vader_model,
          data, confidence_threshold, analysis_df, summary_stats, pc,
          session_state, widgets, script, temp_upload>>

app_vars == <<session_state, widgets, script, temp_upload>>

\* a path at which no file has been written
NoFile == [exists |-> FALSE]

\* no browser session is open
AppIdle ==
    /\ session_state = <<>>
    /\ widgets = <<>>
    /\ script = <<>>
    /\ temp_upload = NoFile

None == "None"

----------------------------------------------------------------------------
(* Program constants, in units of 0.025.                                   *)

\* config.py:18
MIN_TEXT_LENGTH == 10
\* sentiment_analyzer.py:64, the literal the single-scorer variant compares with
HARDCODED_MIN_LENGTH == 10
\* sentiment_analyzer.py:34,36: polarity > 0.1, polarity < -0.1
TEXTBLOB_THRESHOLD == 4
\* sentiment_analyzer_full.py:84,86: compound >= 0.05, compound <= -0.05
VADER_THRESHOLD == 2
\* sentiment_analyzer_full.py:188: confidence = 0.5
TIE_CONFIDENCE == 20
\* the value 1.0
ONE == 2 * TIE_CONFIDENCE

Labels == {"positive", "negative", "neutral"}

Abs(x) == IF x < 0 THEN -x ELSE x

\* the grid on which the scoring libraries are sampled: -1.0, -0.95, ..., 1.0
Grid == {2 * k : k \in -(ONE \div 2) .. (ONE \div 2)}

----------------------------------------------------------------------------
(* Text normalisation: SentimentAnalyzer.clean_text                        *)

\* \s of the re module
IsSpace(c) == c \in {" ", "\t", "\n", "\r"}

WordChars ==
    {"a","b","c","d","e","f","g","h","i","j","k","l","m","n","o","p","q","r",
     "s","t","u","v","w","x","y","z",
     "A","B","C","D","E","F","G","H","I","J","K","L","M","N","O","P","Q","R",
     "S","T","U","V","W","X","Y","Z",
     "0","1","2","3","4","5","6","7","8","9","_"}

\* \w of the re module
IsWord(c) == c \in WordChars

\* s[i..] starts with the literal pat
StartsWith(s, i, pat) ==
    /\ i + Len(pat) - 1 <= Len(s)
    /\ \A k \in 1 .. Len(pat) : s[i + k - 1] = pat[k]

\* first index >= i whose character is not in the class (Len(s)+1 if none);
\* the end of a greedy \S+ or \w+ that starts at i
RECURSIVE RunEnd(_, _, _)
RunEnd(s, i, space) ==
    IF i > Len(s) THEN i
    ELSE IF (space /\ ~IsSpace(s[i])) \/ (~space /\ IsWord(s[i]))
         THEN RunEnd(s, i + 1, space)
         ELSE i

\* literal followed by at least one \S: the alternatives http\S+, www\S+, https\S+
MatchesURL(s, i, lit) ==
    /\ StartsWith(s, i, lit)
    /\ i + Len(lit) <= Len(s)
    /\ ~IsSpace(s[i + Len(lit)])

\* re.sub(r'http\S+|www\S+|https\S+', '', text): leftmost match, the
\* alternatives tried in order, each match removed up to the end of the
\* run of non-space characters
RECURSIVE RemoveURLs(_, _)
RemoveURLs(s, i) ==
    IF i > Len(s) THEN <<>>
    ELSE IF MatchesURL(s, i, <<"h","t","t","p">>)
         THEN RemoveURLs(s, RunEnd(s, i + 4, TRUE))
    ELSE IF MatchesURL(s, i, <<"w","w","w">>)
         THEN RemoveURLs(s, RunEnd(s, i + 3, TRUE))
    ELSE IF MatchesURL(s, i, <<"h","t","t","p","s">>)
         THEN RemoveURLs(s, RunEnd(s, i + 5, TRUE))
    ELSE <<s[i]>> \o RemoveURLs(s, i + 1)

\* re.sub(r'@\w+|#\w+', '', text)
RECURSIVE RemoveMentions(_, _)
RemoveMentions(s, i) ==
    IF i > Len(s) THEN <<>>
    ELSE IF s[i] \in {"@", "#"} /\ i + 1 <= Len(s) /\ IsWord(s[i + 1])
         THEN RemoveMentions(s, RunEnd(s, i + 1, FALSE))
    ELSE <<s[i]>> \o RemoveMentions(s, i + 1)

\* re.sub(r'\s+', ' ', text): every run of whitespace becomes one space
RECURSIVE CollapseSpaces(_, _)
CollapseSpaces(s, i) ==
    IF i > Len(s) THEN <<>>
    ELSE IF IsSpace(s[i])
         THEN IF i > 1 /\ IsSpace(s[i - 1])
              THEN CollapseSpaces(s, i + 1)
              ELSE <<" ">> \o CollapseSpaces(s, i + 1)
    ELSE <<s[i]>> \o CollapseSpaces(s, i + 1)

\* str.strip()
RECURSIVE Strip(_)
Strip(s) ==
    IF s = <<>> THEN s
    ELSE IF IsSpace(s[1]) THEN Strip(Tail(s))
    ELSE IF IsSpace(s[Len(s)]) THEN Strip(SubSeq(s, 1, Len(s) - 1))
    ELSE s

\* a null text (Python None): the one value that is not a sequence of characters
NullText == <<None>>

\* clean_text without the final .strip()
clean_text_unstripped(text) ==
    IF text = NullText \/ text = <<>> THEN <<>>
    ELSE CollapseSpaces(RemoveMentions(RemoveURLs(text, 1), 1), 1)

\* clean_text with the whitespace step moved before the mention step
clean_text_collapse_first(text) ==
    IF text = NullText \/ text = <<>> THEN <<>>
    ELSE RemoveMentions(Strip(CollapseSpaces(RemoveURLs(text, 1), 1)), 1)

\* SentimentAnalyzer.clean_text
clean_text(text) ==
    IF text = NullText \/ text = <<>> THEN <<>>
    ELSE Strip(CollapseSpaces(RemoveMentions(RemoveURLs(text, 1), 1), 1))

----------------------------------------------------------------------------
(* Scorers.  The argument is what the library does with the text: it      *)
(* returns a polarity (compound score), or it raises.                      *)

Raises == [ok |-> FALSE, value |-> 0]
Returns(v) == [ok |-> TRUE, value |-> v]

\* textblob_sentiment with the thresholds included in the positive and negative bands
textblob_sentiment_inclusive(blob) ==
    IF ~blob.ok
    THEN [sentiment |-> "neutral", polarity |-> 0, confidence |-> 0]
    ELSE LET polarity == blob.value IN
         [sentiment  |-> IF polarity >= TEXTBLOB_THRESHOLD THEN "positive"
                         ELSE IF polarity <= -TEXTBLOB_THRESHOLD THEN "negative"
                         ELSE "neutral",
          polarity   |-> polarity,
          confidence |-> Abs(polarity)]

\* textblob_sentiment with confidence = polarity, the abs() left out
textblob_sentiment_signed_confidence(blob) ==
    IF ~blob.ok
    THEN [sentiment |-> "neutral", polarity |-> 0, confidence |-> 0]
    ELSE LET polarity == blob.value IN
         [sentiment  |-> IF polarity > TEXTBLOB_THRESHOLD THEN "positive"
                         ELSE IF polarity < -TEXTBLOB_THRESHOLD THEN "negative"
                         ELSE "neutral",
          polarity   |-> polarity,
          confidence |-> polarity]

\* SentimentAnalyzer.textblob_sentiment
textblob_sentiment(blob) ==
    IF ~blob.ok
    THEN [sentiment |-> "neutral", polarity |-> 0, confidence |-> 0]
    ELSE LET polarity == blob.value IN
         [sentiment  |-> IF polarity > TEXTBLOB_THRESHOLD THEN "positive"
                         ELSE IF polarity < -TEXTBLOB_THRESHOLD THEN "negative"
                         ELSE "neutral",
          polarity   |-> polarity,
          confidence |-> Abs(polarity)]

\* SentimentAnalyzer.vader_sentiment
vader_sentiment(scores) ==
    IF ~scores.ok
    THEN [sentiment |-> "neutral", compound |-> 0, confidence |-> 0]
    ELSE LET compound == scores.value IN
         [sentiment  |-> IF compound >= VADER_THRESHOLD THEN "positive"
                         ELSE IF compound <= -VADER_THRESHOLD THEN "negative"
                         ELSE "neutral",
          compound   |-> compound,
          confidence |-> Abs(compound)]

\* ensemble_sentiment with the disagreeing tie averaged like every other case
ensemble_tie_averaged(textblob_sent, vader_sent, textblob_conf, vader_conf) ==
    IF textblob_conf > vader_conf
    THEN [sentiment  |-> textblob_sent,
          confidence |-> (textblob_conf + vader_conf) \div 2]
    ELSE IF vader_conf > textblob_conf
    THEN [sentiment  |-> vader_sent,
          confidence |-> (textblob_conf + vader_conf) \div 2]
    ELSE [sentiment  |-> IF textblob_sent = vader_sent THEN textblob_sent ELSE "neutral",
          confidence |-> (textblob_conf + vader_conf) \div 2]

\* ensemble_sentiment returning the winner's own confidence
ensemble_winner_confidence(textblob_sent, vader_sent, textblob_conf, vader_conf) ==
    IF textblob_conf > vader_conf
    THEN [sentiment |-> textblob_sent, confidence |-> textblob_conf]
    ELSE IF vader_conf > textblob_conf
    THEN [sentiment |-> vader_sent, confidence |-> vader_conf]
    ELSE IF textblob_sent = vader_sent
    THEN [sentiment |-> textblob_sent, confidence |-> textblob_conf]
    ELSE [sentiment |-> "neutral", confidence |-> TIE_CONFIDENCE]

\* ensemble_sentiment falling back to neutral 0.5 on every tie
ensemble_every_tie_neutral(textblob_sent, vader_sent, textblob_conf, vader_conf) ==
    IF textblob_conf > vader_conf
    THEN [sentiment  |-> textblob_sent,
          confidence |-> (textblob_conf + vader_conf) \div 2]
    ELSE IF vader_conf > textblob_conf
    THEN [sentiment  |-> vader_sent,
          confidence |-> (textblob_conf + vader_conf) \div 2]
    ELSE [sentiment |-> "neutral", confidence |-> TIE_CONFIDENCE]

\* ensemble_sentiment adding the two confidences without halving
ensemble_confidence_sum(textblob_sent, vader_sent, textblob_conf, vader_conf) ==
    IF textblob_conf > vader_conf
    THEN [sentiment |-> textblob_sent, confidence |-> textblob_conf + vader_conf]
    ELSE IF vader_conf > textblob_conf
    THEN [sentiment |-> vader_sent, confidence |-> textblob_conf + vader_conf]
    ELSE IF textblob_sent = vader_sent
    THEN [sentiment |-> textblob_sent, confidence |-> textblob_conf + vader_conf]
    ELSE [sentiment |-> "neutral", confidence |-> TIE_CONFIDENCE]

\* ensemble_sentiment with >= in the first comparison: on equal confidence
\* the first scorer's label wins
ensemble_first_wins_ties(textblob_sent, vader_sent, textblob_conf, vader_conf) ==
    IF textblob_conf >= vader_conf
    THEN [sentiment  |-> textblob_sent,
          confidence |-> (textblob_conf + vader_conf) \div 2]
    ELSE [sentiment  |-> vader_sent,
          confidence |-> (textblob_conf + vader_conf) \div 2]

\* SentimentAnalyzer.ensemble_sentiment
ensemble_sentiment(textblob_sent, vader_sent, textblob_conf, vader_conf) ==
    IF textblob_conf > vader_conf
    THEN [sentiment  |-> textblob_sent,
          confidence |-> (textblob_conf + vader_conf) \div 2]
    ELSE IF vader_conf > textblob_conf
    THEN [sentiment  |-> vader_sent,
          confidence |-> (textblob_conf + vader_conf) \div 2]
    ELSE IF textblob_sent = vader_sent
    THEN [sentiment  |-> textblob_sent,
          confidence |-> (textblob_conf + vader_conf) \div 2]
    ELSE [sentiment  |-> "neutral", confidence |-> TIE_CONFIDENCE]

----------------------------------------------------------------------------
(* Raw items.  An item is a dict; title and text are character sequences,  *)
(* created_utc is a time in hours.                                         *)

\* dict.get(key, default)
Get(item, key, default) == IF key \in DOMAIN item THEN item[key] ELSE default

\* title and text joined without the space between them
combined_text_unspaced(item) == Get(item, "title", <<>>) \o Get(item, "text", <<>>)

\* f"{item.get('title', '')} {item.get('text', '')}"
combined_text(item) == Get(item, "title", <<>>) \o <<" ">> \o Get(item, "text", <<>>)

nice_phone == <<"n","i","c","e"," ","p","h","o","n","e">>
bad == <<"b","a","d">>
phone == <<"p","h","o","n","e">>
awful_battery == <<"a","w","f","u","l"," ","b","a","t","t","e","r","y">>
link_and_tag == <<"w","w","w",".","x",".","i","o"," "," ","#","a","d">>
link_and_mention == <<"h","t","t","p",":","/","/","t",".","c","o"," ","@","b","o","b">>

\* The items a collector can hand over.  Cleaned title+text:
\*   n1 "nice phone" (10 characters), n2 "bad phone" (9),
\*   n3 "awful battery" (13, from 28 raw), n4 "bad" (3, from 20 raw)
RawItems ==
    { [id |-> "n1", title |-> SubSeq(nice_phone, 1, 4), text |-> phone,
       source |-> "google_news_live", keyword |-> "acme", created_utc |-> 3,
       score |-> 7, num_comments |-> 2, url |-> "u1", subreddit |-> "news"],
      [id |-> "n2", title |-> bad, text |-> phone,
       source |-> "google_news_live", keyword |-> "acme", created_utc |-> 1],
      [id |-> "n3", text |-> awful_battery \o <<" ">> \o link_and_tag,
       source |-> "sample_backup", keyword |-> "acme", created_utc |-> 2,
       score |-> -1, num_comments |-> 0, url |-> "u3", subreddit |-> "sample_data"],
      [id |-> "n4", title |-> bad, text |-> link_and_mention,
       source |-> "custom_upload", keyword |-> "acme", created_utc |-> 4] }

\* longest batch handed to analyze_batch
MaxBatch == 3

RECURSIVE SeqsUpTo(_, _)
SeqsUpTo(S, n) ==
    IF n = 0 THEN {<<>>}
    ELSE LET shorter == SeqsUpTo(S, n - 1) IN
         shorter \cup {Append(q, x) : q \in {r \in shorter : Len(r) = n - 1}, x \in S}

\* batches whose items have unique ids
Batches ==
    {d \in SeqsUpTo(RawItems, MaxBatch) :
        \A i, j \in 1 .. Len(d) : i # j => d[i].id # d[j].id}

----------------------------------------------------------------------------
(* analyze_batch, both variants.  A DataFrame is its set of columns and    *)
(* its sequence of rows.  subjectivity and the vader pos/neg/neu scores,   *)
(* library outputs that are copied and never read, are left out.           *)

\* pd.DataFrame(results): the columns are the keys of the row dicts
DataFrame(results) ==
    [columns |-> IF results = <<>> THEN {} ELSE DOMAIN results[1],
     rows    |-> results]

\* sentiment_analyzer.py: the dict built for one surviving item
result_row(item, combined, cleaned, textblob_result) ==
    [id                 |-> Get(item, "id", None),
     original_text      |-> combined,
     cleaned_text       |-> cleaned,
     source             |-> Get(item, "source", None),
     keyword            |-> Get(item, "keyword", None),
     created_utc        |-> Get(item, "created_utc", None),
     textblob_sentiment |-> textblob_result.sentiment,
     textblob_polarity  |-> textblob_result.polarity,
     final_sentiment    |-> textblob_result.sentiment,
     final_confidence   |-> textblob_result.confidence,
     score              |-> Get(item, "score", 0),
     num_comments       |-> Get(item, "num_comments", 0),
     url                |-> Get(item, "url", ""),
     subreddit          |-> Get(item, "subreddit", "")]

\* the loop without the scorer's try/except: it ends at the first text the
\* library fails on
RECURSIVE analyze_items_unguarded(_, _, _)
analyze_items_unguarded(d, i, tb) ==
    IF i > Len(d) THEN <<>>
    ELSE LET combined == combined_text(d[i])
             cleaned == clean_text(combined)
         IN  IF Len(cleaned) < HARDCODED_MIN_LENGTH
             THEN analyze_items_unguarded(d, i + 1, tb)
             ELSE IF ~tb[cleaned].ok THEN <<>>
             ELSE <<result_row(d[i], combined, cleaned, textblob_sentiment(tb[cleaned]))>>
                  \o analyze_items_unguarded(d, i + 1, tb)

\* the loop with results.insert(0, result) in place of results.append(result)
RECURSIVE analyze_items_prepending(_, _, _)
analyze_items_prepending(d, i, tb) ==
    IF i > Len(d) THEN <<>>
    ELSE LET combined == combined_text(d[i])
             cleaned == clean_text(combined)
         IN  IF Len(cleaned) < HARDCODED_MIN_LENGTH
             THEN analyze_items_prepending(d, i + 1, tb)
             ELSE analyze_items_prepending(d, i + 1, tb)
                  \o <<result_row(d[i], combined, cleaned, textblob_sentiment(tb[cleaned]))>>

\* sentiment_analyzer.py: the loop of analyze_batch from item i on;
\* the length test compares with the literal 10
RECURSIVE analyze_items(_, _, _)
analyze_items(d, i, tb) ==
    IF i > Len(d) THEN <<>>
    ELSE LET combined == combined_text(d[i])
             cleaned == clean_text(combined)
         IN  IF Len(cleaned) < HARDCODED_MIN_LENGTH
             THEN analyze_items(d, i + 1, tb)
             ELSE <<result_row(d[i], combined, cleaned, textblob_sentiment(tb[cleaned]))>>
                  \o analyze_items(d, i + 1, tb)

\* sentiment_analyzer.py: SentimentAnalyzer.analyze_batch
analyze_batch(d, tb) == DataFrame(analyze_items(d, 1, tb))

\* sentiment_analyzer_full.py: the dict built for one surviving item
result_row_full(item, combined, cleaned, textblob_result, vader_result, ensemble) ==
    [id                 |-> Get(item, "id", None),
     original_text      |-> combined,
     cleaned_text       |-> cleaned,
     source             |-> Get(item, "source", None),
     keyword            |-> Get(item, "keyword", None),
     created_utc        |-> Get(item, "created_utc", None),
     textblob_sentiment |-> textblob_result.sentiment,
     textblob_polarity  |-> textblob_result.polarity,
     vader_sentiment    |-> vader_result.sentiment,
     vader_compound     |-> vader_result.compound,
     final_sentiment    |-> ensemble.sentiment,
     final_confidence   |-> ensemble.confidence,
     score              |-> Get(item, "score", 0),
     num_comments       |-> Get(item, "num_comments", 0),
     url                |-> Get(item, "url", ""),
     subreddit          |-> Get(item, "subreddit", "")]

\* sentiment_analyzer_full.py: the loop of analyze_batch from item i on;
\* the length test compares with self.config.MIN_TEXT_LENGTH
RECURSIVE analyze_items_full(_, _, _, _, _)
analyze_items_full(cfg, d, i, tb, vd) ==
    IF i > Len(d) THEN <<>>
    ELSE LET combined == combined_text(d[i])
             cleaned == clean_text(combined)
         IN  IF Len(cleaned) < cfg.MIN_TEXT_LENGTH
             THEN analyze_items_full(cfg, d, i + 1, tb, vd)
             ELSE LET textblob_result == textblob_sentiment(tb[cleaned])
                      vader_result == vader_sentiment(vd[cleaned])
                      ensemble == ensemble_sentiment(textblob_result.sentiment,
                                                     vader_result.sentiment,
                                                     textblob_result.confidence,
                                                     vader_result.confidence)
                  IN  <<result_row_full(d[i], combined, cleaned,
                                        textblob_result, vader_result, ensemble)>>
                      \o analyze_items_full(cfg, d, i + 1, tb, vd)

\* sentiment_analyzer_full.py: SentimentAnalyzer.analyze_batch
analyze_batch_full(cfg, d, tb, vd) == DataFrame(analyze_items_full(cfg, d, 1, tb, vd))

----------------------------------------------------------------------------
(* The caller's confidence filter and get_summary_stats.                   *)

\* app.py:587: the slider moves in steps of 0.1 from 0.0 to 1.0
SLIDER_STEP == 4
SliderValues == {SLIDER_STEP * k : k \in 0 .. (ONE \div SLIDER_STEP)}

\* app.py: analysis_df[analysis_df['final_confidence'] >= confidence_threshold],
\* applied only when the threshold is above 0
confidence_filter(df, threshold) ==
    IF threshold > 0
    THEN [df EXCEPT !.rows = SelectSeq(df.rows, LAMBDA r : r.final_confidence >= threshold)]
    ELSE df

\* df[column] of a DataFrame without that column raises KeyError
filter_raises(df, threshold) == threshold > 0 /\ "final_confidence" \notin df.columns

\* Python round(): num/den to the nearest integer, halves to the even one
RoundHalfEven(num, den) ==
    LET q == num \div den
        r == num % den
    IN  IF 2 * r < den THEN q
        ELSE IF 2 * r > den THEN q + 1
        ELSE IF q % 2 = 0 THEN q ELSE q + 1

\* df['final_sentiment'].value_counts().get(label, 0)
sentiment_count(rows, label) ==
    Cardinality({i \in 1 .. Len(rows) : rows[i].final_sentiment = label})

RECURSIVE SumConfidence(_, _)
SumConfidence(rows, i) ==
    IF i > Len(rows) THEN 0 ELSE rows[i].final_confidence + SumConfidence(rows, i + 1)

MinOf(S) == CHOOSE x \in S : \A y \in S : x <= y
MaxOf(S) == CHOOSE x \in S : \A y \in S : x >= y

\* the dict {} returned for an empty DataFrame
EmptyDict == <<>>

\* get_summary_stats counting a label that no row carries in place of neutral
get_summary_stats_neutral_miscounted(df) ==
    IF df.columns = {} \/ df.rows = <<>>
    THEN EmptyDict
    ELSE LET rows == df.rows IN
         [total_posts |-> Len(rows),
          sentiment_distribution |->
              [positive |-> sentiment_count(rows, "positive"),
               negative |-> sentiment_count(rows, "negative"),
               neutral  |-> sentiment_count(rows, "Neutral")]]

\* get_summary_stats answering an empty DataFrame with a zeroed summary
get_summary_stats_zeroed(df) ==
    IF df.columns = {} \/ df.rows = <<>>
    THEN [total_posts |-> 0,
          sentiment_distribution |-> [positive |-> 0, negative |-> 0, neutral |-> 0],
          sentiment_percentages |-> [positive |-> 0, negative |-> 0, neutral |-> 0],
          average_confidence |-> 0,
          date_range |-> [start |-> None, end |-> None]]
    ELSE LET rows == df.rows IN
         [total_posts |-> Len(rows),
          sentiment_distribution |->
              [positive |-> sentiment_count(rows, "positive"),
               negative |-> sentiment_count(rows, "negative"),
               neutral  |-> sentiment_count(rows, "neutral")]]

\* get_summary_stats cutting each percentage off after two decimals in place
\* of rounding it
get_summary_stats_truncated(df) ==
    IF df.columns = {} \/ df.rows = <<>>
    THEN EmptyDict
    ELSE LET rows == df.rows
             total_posts == Len(rows)
         IN  [total_posts |-> total_posts,
              sentiment_distribution |->
                  [positive |-> sentiment_count(rows, "positive"),
                   negative |-> sentiment_count(rows, "negative"),
                   neutral  |-> sentiment_count(rows, "neutral")],
              sentiment_percentages |->
                  [positive |-> (sentiment_count(rows, "positive") * 10000) \div total_posts,
                   negative |-> (sentiment_count(rows, "negative") * 10000) \div total_posts,
                   neutral  |-> (sentiment_count(rows, "neutral") * 10000) \div total_posts]]

\* SentimentAnalyzer.get_summary_stats (the same text in both variants).
\* Percentages are in units of 0.01, average_confidence in units of 0.001.
get_summary_stats(df) ==
    IF df.columns = {} \/ df.rows = <<>>
    THEN EmptyDict
    ELSE LET rows == df.rows
             total_posts == Len(rows)
             times == {rows[i].created_utc : i \in 1 .. Len(rows)}
         IN  [total_posts |-> total_posts,
              sentiment_distribution |->
                  [positive |-> sentiment_count(rows, "positive"),
                   negative |-> sentiment_count(rows, "negative"),
                   neutral  |-> sentiment_count(rows, "neutral")],
              sentiment_percentages |->
                  [positive |-> RoundHalfEven(sentiment_count(rows, "positive") * 10000, total_posts),
                   negative |-> RoundHalfEven(sentiment_count(rows, "negative") * 10000, total_posts),
                   neutral  |-> RoundHalfEven(sentiment_count(rows, "neutral") * 10000, total_posts)],
              average_confidence |-> RoundHalfEven(SumConfidence(rows, 1) * 25, total_posts),
              date_range |->
                  IF "created_utc" \in df.columns
                  THEN [start |-> MinOf(times), end |-> MaxOf(times)]
                  ELSE [start |-> None, end |-> None]]

----------------------------------------------------------------------------
(* One analysis request: analyze_batch, then the caller's filter and       *)
(* get_summary_stats.  The scoring libraries are deterministic functions   *)
(* of the cleaned text; what they return for a text is fixed the first     *)
(* time the text is scored.                                                *)

\* what the libraries may do with a text
TextBlobOutcomes == {Raises, Returns(-ONE), Returns(TEXTBLOB_THRESHOLD), Returns(ONE)}
VaderOutcomes == {Raises, Returns(-ONE), Returns(ONE)}

\* values of Config.MIN_TEXT_LENGTH a deployment may configure
ConfigLengths == {MIN_TEXT_LENGTH - 1, MIN_TEXT_LENGTH, MIN_TEXT_LENGTH + 1}

\* confidence thresholds tried
Thresholds == {t \in SliderValues : t \in {0, SLIDER_STEP, ONE}}

cleaned_of(item) == clean_text(combined_text(item))

\* the cleaned texts of d that pass the length test and reach the scorers
ScoredTexts(d, min_length) ==
    {t \in {cleaned_of(d[i]) : i \in 1 .. Len(d)} : Len(t) >= min_length}

\* f answers as the library already answered
Agrees(f, model) == \A t \in DOMAIN f \cap DOMAIN model : f[t] = model[t]

NoCall == [fn |-> "none"]

Init ==
    /\ call = NoCall
    /\ result = NoCall
    /\ config \in [MIN_TEXT_LENGTH : ConfigLengths]
    /\ variant \in {"simple", "full"}
    /\ textblob_model = <<>>
    /\ vader_model = <<>>
    /\ data \in Batches
    /\ confidence_threshold = 0
    /\ analysis_df = None
    /\ summary_stats = None
    /\ pc = "collected"
    /\ AppIdle

\* sentiment_analyzer.py: analyzer.analyze_batch(raw_data)
AnalyzeBatch ==
    /\ pc = "collected"
    /\ variant = "simple"
    /\ \E tb \in [ScoredTexts(data, HARDCODED_MIN_LENGTH) -> TextBlobOutcomes] :
          /\ Agrees(tb, textblob_model)
          /\ textblob_model' = tb @@ textblob_model
          /\ analysis_df' = analyze_batch(data, tb)
    /\ pc' = "analyzed"
    /\ UNCHANGED <<call, result, config, variant, vader_model, data,
                   confidence_threshold, summary_stats, app_vars>>

\* sentiment_analyzer_full.py: analyzer.analyze_batch(raw_data)
AnalyzeBatchFull ==
    /\ pc = "collected"
    /\ variant = "full"
    /\ \E tb \in [ScoredTexts(data, config.MIN_TEXT_LENGTH) -> TextBlobOutcomes],
          vd \in [ScoredTexts(data, config.MIN_TEXT_LENGTH) -> VaderOutcomes] :
          /\ Agrees(tb, textblob_model)
          /\ Agrees(vd, vader_model)
          /\ textblob_model' = tb @@ textblob_model
          /\ vader_model' = vd @@ vader_model
          /\ analysis_df' = analyze_batch_full(config, data, tb, vd)
    /\ pc' = "analyzed"
    /\ UNCHANGED <<call, result, config, variant, data,
                   confidence_threshold, summary_stats, app_vars>>

\* app.py:652-661: the confidence filter, then get_summary_stats
FilterAndSummarize ==
    /\ pc = "analyzed"
    /\ \E threshold \in Thresholds :
          /\ ~filter_raises(analysis_df, threshold)
          /\ confidence_threshold' = threshold
          /\ LET filtered == confidence_filter(analysis_df, threshold) IN
                /\ analysis_df' = filtered
                /\ summary_stats' = get_summary_stats(filtered)
    /\ pc' = "summarized"
    /\ UNCHANGED <<call, result, config, variant, textblob_model, vader_model, data,
                   app_vars>>

\* app.py:655: the filter indexes a DataFrame that has no columns
FilterRaisesKeyError ==
    /\ pc = "analyzed"
    /\ \E threshold \in Thresholds :
          /\ filter_raises(analysis_df, threshold)
          /\ confidence_threshold' = threshold
    /\ pc' = "raised"
    /\ UNCHANGED <<call, result, config, variant, textblob_model, vader_model,
                   data, analysis_df, summary_stats, app_vars>>

Next ==
    \/ AnalyzeBatch
    \/ AnalyzeBatchFull
    \/ FilterAndSummarize
    \/ FilterRaisesKeyError

Spec == Init /\ [][Next]_vars

----------------------------------------------------------------------------
(* The pure functions called on their own: the arguments are drawn in the  *)
(* initial state, the action is the call.                                  *)

\* the analyzer of the pipeline at rest
CoreIdle ==
    /\ config = [MIN_TEXT_LENGTH |-> MIN_TEXT_LENGTH]
    /\ variant = "full"
    /\ textblob_model = <<>>
    /\ vader_model = <<>>
    /\ data = <<>>
    /\ confidence_threshold = 0
    /\ analysis_df = None
    /\ summary_stats = None

\* the pipeline and the app at rest while a function is called on its own
PipelineIdle == CoreIdle /\ AppIdle

core_vars == <<config, variant, textblob_model, vader_model, data,
               confidence_threshold, analysis_df, summary_stats>>

pipeline_vars == <<core_vars, app_vars>>

\* confidences a scorer can report: |polarity| on the grid
Confidences == {c \in Grid : c >= 0}

\* what a library can do with a text: raise, or return a value in [-1, 1]
Outcomes == {Raises} \cup {Returns(v) : v \in Grid}

InitEnsemble ==
    /\ call \in [fn : {"ensemble_sentiment"},
                  textblob_sent : Labels, vader_sent : Labels,
                  textblob_conf : Confidences, vader_conf : Confidences]
    /\ result = NoCall
    /\ pc = "called"
    /\ PipelineIdle

CallEnsemble ==
    /\ pc = "called"
    /\ call.fn = "ensemble_sentiment"
    /\ result' = ensemble_sentiment(call.textblob_sent, call.vader_sent,
                                     call.textblob_conf, call.vader_conf)
    /\ pc' = "returned"
    /\ UNCHANGED <<call, pipeline_vars>>

SpecEnsemble == InitEnsemble /\ [][CallEnsemble]_vars

InitScorer ==
    /\ call \in [fn : {"textblob_sentiment", "vader_sentiment"}, outcome : Outcomes]
    /\ result = NoCall
    /\ pc = "called"
    /\ PipelineIdle

CallTextblob ==
    /\ pc = "called"
    /\ call.fn = "textblob_sentiment"
    /\ result' = textblob_sentiment(call.outcome)
    /\ pc' = "returned"
    /\ UNCHANGED <<call, pipeline_vars>>

CallVader ==
    /\ pc = "called"
    /\ call.fn = "vader_sentiment"
    /\ result' = vader_sentiment(call.outcome)
    /\ pc' = "returned"
    /\ UNCHANGED <<call, pipeline_vars>>

NextScorer == CallTextblob \/ CallVader

SpecScorer == InitScorer /\ [][NextScorer]_vars

----------------------------------------------------------------------------
(* Properties of ensemble_sentiment, checked under SpecEnsemble.           *)

EnsembleReturned == pc = "returned" /\ call.fn = "ensemble_sentiment"

\* C1: two results with equal confidence and different labels resolve to
\* neutral with confidence exactly 0.5, whatever the labels and the confidence.
C1_TieDisagreeIsNeutralHalf ==
    (EnsembleReturned /\ call.textblob_conf = call.vader_conf
                      /\ call.textblob_sent # call.vader_sent)
    => result = [sentiment |-> "neutral", confidence |-> TIE_CONFIDENCE]

\* a tie at confidence 1.0 between positive and negative came back as neutral 0.5
C1_Witness ==
    /\ EnsembleReturned
    /\ call.textblob_conf = ONE /\ call.vader_conf = ONE
    /\ call.textblob_sent = "positive" /\ call.vader_sent = "negative"
    /\ result.sentiment = "neutral" /\ result.confidence = TIE_CONFIDENCE

\* C2: when the confidences differ the label of the strictly more confident
\* result wins and the confidence returned is the mean of the two.
C2_HigherConfidenceWinsMean ==
    (EnsembleReturned /\ call.textblob_conf # call.vader_conf)
    => /\ result.sentiment = IF call.textblob_conf > call.vader_conf
                              THEN call.textblob_sent ELSE call.vader_sent
       /\ 2 * result.confidence = call.textblob_conf + call.vader_conf

\* VADER was the more confident one and its label came back, with the mean
C2_Witness ==
    /\ EnsembleReturned
    /\ call.textblob_conf = TEXTBLOB_THRESHOLD /\ call.vader_conf = ONE
    /\ call.textblob_sent = "neutral" /\ call.vader_sent = "negative"
    /\ result.sentiment = "negative"
    /\ result.confidence < ONE /\ result.confidence > TEXTBLOB_THRESHOLD

\* C3: two results with the same confidence c and the same label L resolve to
\* L with the averaged confidence, which is c.
C3_TieAgreeKeepsLabel ==
    (EnsembleReturned /\ call.textblob_conf = call.vader_conf
                      /\ call.textblob_sent = call.vader_sent)
    => result = [sentiment |-> call.textblob_sent, confidence |-> call.textblob_conf]

\* both scorers said positive at confidence 1.0 and positive 1.0 came back
C3_Witness ==
    /\ EnsembleReturned
    /\ call.textblob_conf = ONE /\ call.vader_conf = ONE
    /\ call.textblob_sent = "positive" /\ call.vader_sent = "positive"
    /\ result.sentiment = "positive" /\ result.confidence = ONE

----------------------------------------------------------------------------
(* Properties of the scorers, checked under SpecScorer.                    *)

\* C6: the lexicon scorer labels positive exactly when polarity > 0.1 and
\* negative exactly when polarity < -0.1, so 0.1 and -0.1 are neutral, and
\* the confidence it reports is |polarity|.
C6_StrictThresholds ==
    (pc = "returned" /\ call.fn = "textblob_sentiment")
    => /\ result.sentiment \in Labels
       /\ result.confidence = Abs(result.polarity)
       /\ call.outcome.ok =>
            /\ result.polarity = call.outcome.value
            /\ (result.sentiment = "positive") <=> (call.outcome.value > TEXTBLOB_THRESHOLD)
            /\ (result.sentiment = "negative") <=> (call.outcome.value < -TEXTBLOB_THRESHOLD)

\* polarity exactly 0.1 came back neutral with confidence 0.1
C6_Witness ==
    /\ pc = "returned" /\ call.fn = "textblob_sentiment"
    /\ call.outcome = Returns(TEXTBLOB_THRESHOLD)
    /\ result.sentiment = "neutral"
    /\ result.confidence = TEXTBLOB_THRESHOLD

----------------------------------------------------------------------------
(* Properties of analyze_batch and get_summary_stats, checked under Spec.  *)

Rows == analysis_df.rows

\* how many rows carry the id of item
RowsOf(item) == Cardinality({r \in 1 .. Len(Rows) : Rows[r].id = item.id})

\* position in the input batch of the item with this id
PositionOf(id) == CHOOSE i \in 1 .. Len(data) : data[i].id = id

\* C4: with unique ids, an item whose cleaned title+text is shorter than the
\* configured MIN_TEXT_LENGTH gets no record and every other item gets exactly
\* one, in both analyzer variants.
C4_LengthFilterUsesConfig ==
    pc = "analyzed" =>
        \A i \in 1 .. Len(data) :
            IF Len(cleaned_of(data[i])) < config.MIN_TEXT_LENGTH
            THEN RowsOf(data[i]) = 0
            ELSE RowsOf(data[i]) = 1

\* C5: the records come in the order of the surviving input items.
C5_OutputKeepsInputOrder ==
    pc = "analyzed" =>
        \A a, b \in 1 .. Len(Rows) :
            a < b => PositionOf(Rows[a].id) < PositionOf(Rows[b].id)

\* three items went in, the middle one was dropped, the other two came out
C5_Witness ==
    /\ pc = "analyzed"
    /\ Len(data) = 3 /\ Len(Rows) = 2
    /\ Rows[1].id = data[1].id /\ Rows[2].id = data[3].id

\* C7: a text the scoring library fails on is scored neutral with polarity
\* 0.0 and confidence 0.0, its item still gets a record, and so do the items
\* after it.
C7_ScorerFailureIsNeutralZero ==
    pc = "analyzed" =>
        /\ \A i \in 1 .. Len(data) :
              cleaned_of(data[i]) \in DOMAIN textblob_model => RowsOf(data[i]) = 1
        /\ \A r \in 1 .. Len(Rows) :
              LET t == Rows[r].cleaned_text IN
              /\ ~textblob_model[t].ok =>
                    /\ Rows[r].textblob_sentiment = "neutral"
                    /\ Rows[r].textblob_polarity = 0
                    /\ variant = "simple" =>
                          /\ Rows[r].final_sentiment = "neutral"
                          /\ Rows[r].final_confidence = 0
              /\ (variant = "full" /\ ~vader_model[t].ok) =>
                    /\ Rows[r].vader_sentiment = "neutral"
                    /\ Rows[r].vader_compound = 0
                    /\ ~textblob_model[t].ok =>
                          /\ Rows[r].final_sentiment = "neutral"
                          /\ Rows[r].final_confidence = 0

\* the library failed on the first surviving item; it has a neutral record
\* with confidence 0 and the item after it has its positive record
C7_Witness ==
    /\ pc = "analyzed" /\ variant = "simple"
    /\ Len(Rows) = 2
    /\ ~textblob_model[Rows[1].cleaned_text].ok
    /\ Rows[1].final_sentiment = "neutral" /\ Rows[1].final_confidence = 0
    /\ Rows[2].final_sentiment = "positive"

\* C8: every record has final_sentiment among the three labels and
\* final_confidence in [0, 1], in both variants.
C8_FinalFieldsInRange ==
    pc \in {"analyzed", "summarized", "raised"} =>
        \A r \in 1 .. Len(Rows) :
            /\ Rows[r].final_sentiment \in Labels
            /\ Rows[r].final_confidence >= 0
            /\ Rows[r].final_confidence <= ONE

\* both scorers returned 1.0 and the ensemble record has confidence 1.0
C8_Witness ==
    /\ pc = "analyzed" /\ variant = "full"
    /\ \E r \in 1 .. Len(Rows) :
          /\ textblob_model[Rows[r].cleaned_text] = Returns(ONE)
          /\ vader_model[Rows[r].cleaned_text] = Returns(ONE)
          /\ Rows[r].final_sentiment = "positive"
          /\ Rows[r].final_confidence = ONE

\* C9: for a non-empty collection, filtered or not, total_posts is the number
\* of records and the three distribution counts add up to it.
C9_DistributionSumsToTotal ==
    (pc = "summarized" /\ Rows # <<>>) =>
        /\ summary_stats.total_posts = Len(Rows)
        /\ summary_stats.sentiment_distribution.positive
             + summary_stats.sentiment_distribution.negative
             + summary_stats.sentiment_distribution.neutral
           = summary_stats.total_posts

\* the filter dropped a scored item and the summary counts the two records
\* left, one of them neutral
C9_Witness ==
    /\ pc = "summarized" /\ confidence_threshold > 0
    /\ Len(Rows) = 2
    /\ \E i \in 1 .. Len(data) :
          cleaned_of(data[i]) \in DOMAIN textblob_model /\ RowsOf(data[i]) = 0
    /\ summary_stats.total_posts = 2
    /\ summary_stats.sentiment_distribution.neutral = 1

C11_PercentagesRoundedSumTo100 ==
    (pc = "summarized" /\ Rows # <<>>) =>
        LET total == summary_stats.total_posts
            pct == summary_stats.sentiment_percentages
            cnt == summary_stats.sentiment_distribution
            sum == pct.positive + pct.negative + pct.neutral
        IN  /\ \A label \in Labels :
                  2 * Abs(pct[label] * total - cnt[label] * 10000) <= total
            /\ Abs(sum - 10000) <= 2

\* one positive and one negative record give 50.0, 50.0 and 0.0
C11_Witness ==
    /\ pc = "summarized"
    /\ Len(Rows) = 2
    /\ summary_stats.sentiment_distribution = [positive |-> 1, negative |-> 1, neutral |-> 0]
    /\ summary_stats.sentiment_percentages = [positive |-> 5000, negative |-> 5000, neutral |-> 0]

\* three records, one per label: 33.33 each, 99.99 together
C11_ThirdsReached ==
    /\ pc = "summarized"
    /\ Len(Rows) = 3
    /\ summary_stats.sentiment_percentages = [positive |-> 3333, negative |-> 3333, neutral |-> 3333]

----------------------------------------------------------------------------
(* top_sources of get_summary_stats:                                       *)
(* df['source'].value_counts().head(5).to_dict()                           *)

TOP_SOURCES == 5

\* the sources a record can name; a column names them in this order of first
\* occurrence (the names are opaque to value_counts)
SourceNames == <<"google_news_live", "sample_backup", "custom_upload",
                 "unknown", "reddit", "twitter">>

MaxSourceRows == 6

\* the source columns of up to n rows
RECURSIVE SourceColumns(_)
SourceColumns(n) ==
    IF n = 0 THEN {<<>>}
    ELSE LET shorter == SourceColumns(n - 1) IN
         shorter \cup
         {Append(c, SourceNames[k]) :
             c \in {c \in shorter : Len(c) = n - 1},
             k \in 1 .. Len(SourceNames)}

\* a column whose sources first occur in the order of SourceNames
FirstSeenInOrder(column) ==
    \A i \in 1 .. Len(column) :
        \E k \in 1 .. Len(SourceNames) :
            /\ column[i] = SourceNames[k]
            /\ \A j \in 1 .. k - 1 : \E h \in 1 .. i - 1 : column[h] = SourceNames[j]

occurrences(column, v) == Cardinality({i \in 1 .. Len(column) : column[i] = v})

first_occurrence(column, v) == MinOf({i \in 1 .. Len(column) : column[i] = v})

\* Series.value_counts(): the distinct values with their counts, counts
\* descending.  The order is that of sort_values(ascending=False) with numpy's
\* default, unstable sort: among values of equal count it is whatever the
\* pandas and numpy build produces, so every such order is an outcome.
RECURSIVE descending_orders(_, _)
descending_orders(column, values) ==
    IF values = {} THEN {<<>>}
    ELSE LET most == MaxOf({occurrences(column, v) : v \in values}) IN
         UNION {{<<[source |-> v, count |-> most]>> \o rest :
                    rest \in descending_orders(column, values \ {v})} :
                v \in {v \in values : occurrences(column, v) = most}}

value_counts(column) ==
    descending_orders(column, {column[i] : i \in 1 .. Len(column)})

\* .head(n)
head(counts, n) == SubSeq(counts, 1, IF Len(counts) < n THEN Len(counts) ELSE n)

\* what top_sources can be for a source column; the dict keeps the order
top_sources(column) == {head(counts, TOP_SOURCES) : counts \in value_counts(column)}

InitTopSources ==
    /\ call \in {[fn |-> "top_sources", source |-> c] :
                    c \in {c \in SourceColumns(MaxSourceRows) : FirstSeenInOrder(c)}}
    /\ result = NoCall
    /\ pc = "called"
    /\ PipelineIdle

CallTopSources ==
    /\ pc = "called"
    /\ call.fn = "top_sources"
    /\ \E top \in top_sources(call.source) :
          result' = [fn |-> "top_sources", top_sources |-> top]
    /\ pc' = "returned"
    /\ UNCHANGED <<call, pipeline_vars>>

SpecTopSources == InitTopSources /\ [][CallTopSources]_vars

TopSourcesReturned == pc = "returned" /\ call.fn = "top_sources"

\* the sources listed in top_sources
Listed == {result.top_sources[i].source : i \in 1 .. Len(result.top_sources)}

\* top_sources has at most 5 entries with their true counts, in descending
\* order of count, and no source left out has a higher count than one listed
TopSourcesDescend ==
    TopSourcesReturned =>
        LET top == result.top_sources IN
        /\ Len(top) <= TOP_SOURCES
        /\ \A i \in 1 .. Len(top) : top[i].count = occurrences(call.source, top[i].source)
        /\ \A i, j \in 1 .. Len(top) : i < j => top[i].count >= top[j].count
        /\ \A i \in 1 .. Len(call.source) :
              call.source[i] \notin Listed =>
                  \A j \in 1 .. Len(top) :
                      occurrences(call.source, call.source[i]) <= top[j].count

\* C12: top_sources lists at most 5 sources in descending order of count,
\* sources of equal count in the order of their first occurrence in the input,
\* and no source outside the list has a higher count than one inside it.
C12_TopSourcesStableDescending ==
    /\ TopSourcesDescend
    /\ TopSourcesReturned =>
          LET top == result.top_sources IN
          \A i, j \in 1 .. Len(top) :
              (i < j /\ top[i].count = top[j].count) =>
                  first_occurrence(call.source, top[i].source)
                      < first_occurrence(call.source, top[j].source)

\* six sources of one record each: five are listed and one is left out
C12_SixSourcesCut ==
    /\ TopSourcesReturned
    /\ Len(call.source) = 6
    /\ Len(result.top_sources) = TOP_SOURCES
    /\ Cardinality({call.source[i] : i \in 1 .. 6}) = 6

----------------------------------------------------------------------------
(* calculate_sentiment_trend.  utils.py is the module app.py imports       *)
(* everything from; utils_fixed.py defines the function again.             *)
(* A slope is kept exact, as the fraction num / den with den > 0.          *)

MIN_TREND_RECORDS == 5
MIN_TREND_RECORDS_FIXED == 2
MIN_FIT_POINTS == 3

\* the slope thresholds 0.05 and 0.01, in units of 0.01
SLOPE_THRESHOLD == 5
SLOPE_THRESHOLD_FIXED == 1

\* Series.map(sentiment_map): the number of a label, NaN for any other value
NaN == <<>>
sentiment_map(label) ==
    IF label = "positive" THEN <<1>>
    ELSE IF label = "neutral" THEN <<0>>
    ELSE IF label = "negative" THEN <<-1>>
    ELSE NaN

\* df.sort_values('created_utc') with the rows left in the order passed in
sort_values_unsorted(rows) == rows

\* df.sort_values('created_utc'); the rows modelled carry distinct times
RECURSIVE sort_values(_)
sort_values(rows) ==
    IF rows = <<>> THEN <<>>
    ELSE LET first == CHOOSE i \in 1 .. Len(rows) :
                          \A j \in 1 .. Len(rows) : rows[i].created_utc <= rows[j].created_utc
         IN  <<rows[first]>> \o
             sort_values([k \in 1 .. Len(rows) - 1 |->
                              IF k < first THEN rows[k] ELSE rows[k + 1]])

\* the points (x, y) of the sorted rows, x = 0 .. n - 1, y a number or NaN
points_of(sorted) ==
    [i \in 1 .. Len(sorted) |-> [x |-> i - 1, y |-> sentiment_map(sorted[i].final_sentiment)]]

\* x[mask], y[mask] with mask = ~np.isnan(y)
clean(points) == SelectSeq(points, LAMBDA pt : pt.y # NaN)

RECURSIVE Sum(_, _)
Sum(terms, i) == IF i > Len(terms) THEN 0 ELSE terms[i] + Sum(terms, i + 1)

\* the numerator of the slope without the product of the means: k Sxy
slope_num_uncentred(points) ==
    Len(points) * Sum([i \in 1 .. Len(points) |-> points[i].x * points[i].y[1]], 1)

\* least squares: slope = (k Sxy - Sx Sy) / (k Sxx - Sx Sx)
slope_num(points) ==
    LET k == Len(points)
        Sxy == Sum([i \in 1 .. k |-> points[i].x * points[i].y[1]], 1)
        Sx == Sum([i \in 1 .. k |-> points[i].x], 1)
        Sy == Sum([i \in 1 .. k |-> points[i].y[1]], 1)
    IN  k * Sxy - Sx * Sy

slope_den(points) ==
    LET k == Len(points)
        Sxx == Sum([i \in 1 .. k |-> points[i].x * points[i].x], 1)
        Sx == Sum([i \in 1 .. k |-> points[i].x], 1)
    IN  k * Sxx - Sx * Sx

\* np.polyfit(x, y, 1)[0].  With a NaN among the y the least-squares solver
\* either returns a NaN slope or raises LinAlgError (SVD did not converge),
\* depending on the LAPACK build: both are outcomes.
FitRaises == [raised |-> TRUE, nan |-> FALSE, num |-> 0, den |-> 1]
FitNaN == [raised |-> FALSE, nan |-> TRUE, num |-> 0, den |-> 1]
polyfit(points) ==
    IF \E i \in 1 .. Len(points) : points[i].y = NaN
    THEN {FitNaN, FitRaises}
    ELSE {[raised |-> FALSE, nan |-> FALSE,
           num |-> slope_num(points), den |-> slope_den(points)]}

\* if slope > t: improving, elif slope < -t: declining, else: stable;
\* every comparison with a NaN slope is false
classify(fit, threshold) ==
    IF ~fit.nan /\ 100 * fit.num > threshold * fit.den THEN "improving"
    ELSE IF ~fit.nan /\ 100 * fit.num < -threshold * fit.den THEN "declining"
    ELSE "stable"

TrendReturns(trend, df) == [raised |-> FALSE, trend |-> trend, df |-> df]
TrendRaises(error, df) == [raised |-> TRUE, trend |-> error, df |-> df]

\* df['sentiment_numeric'] = df['final_sentiment'].map(sentiment_map)
with_sentiment_numeric(df) ==
    [columns |-> df.columns \cup {"sentiment_numeric"},
     rows |-> [i \in 1 .. Len(df.rows) |->
                  [sentiment_numeric |-> sentiment_map(df.rows[i].final_sentiment)]
                      @@ df.rows[i]]]

\* utils.py:23-60: what the call can return, with the caller's df afterwards
calculate_sentiment_trend(df) ==
    IF "created_utc" \notin df.columns \/ Len(df.rows) < MIN_TREND_RECORDS
    THEN {TrendReturns("stable", df)}
    ELSE IF "final_sentiment" \notin df.columns
    THEN {TrendReturns("stable", df)}      \* KeyError, caught by the except
    ELSE LET df_after == with_sentiment_numeric(df)
             points == points_of(sort_values(df_after.rows))
         IN  IF Len(clean(points)) < MIN_FIT_POINTS
             THEN {TrendReturns("stable", df_after)}
             ELSE {TrendReturns(IF fit.raised THEN "stable"
                                ELSE classify(fit, SLOPE_THRESHOLD), df_after) :
                       fit \in polyfit(clean(points))}

\* utils_fixed.py:117-141
calculate_sentiment_trend_fixed(df) ==
    IF "created_utc" \notin df.columns \/ Len(df.rows) < MIN_TREND_RECORDS_FIXED
    THEN {TrendReturns("insufficient_data", df)}
    ELSE IF "final_sentiment" \notin df.columns
    THEN {TrendRaises("KeyError", df)}
    ELSE LET points == points_of(sort_values(df.rows)) IN
         {IF fit.raised THEN TrendRaises("LinAlgError", df)
          ELSE TrendReturns(classify(fit, SLOPE_THRESHOLD_FIXED), df) :
              fit \in polyfit(points)}

\* what final_sentiment can hold: the three labels, or something else
TrendLabels == Labels \cup {"mixed"}

MaxTrendRecords == 5
MaxPermuted == 3

\* the orders in which n records are passed in: order[i] is the rank by time
\* of the i-th record passed.  Every order for up to MaxPermuted records,
\* oldest-first and newest-first beyond.
AllOrders(n) == {f \in [1 .. n -> 1 .. n] : \A i, j \in 1 .. n : f[i] = f[j] => i = j}
Orders(n) ==
    IF n <= MaxPermuted THEN AllOrders(n)
    ELSE {[i \in 1 .. n |-> i], [i \in 1 .. n |-> n + 1 - i]}

\* the frame whose record of time rank t has the label labels[t]
timed_frame(labels, order) ==
    [columns |-> {"final_sentiment", "created_utc"},
     rows |-> [i \in 1 .. Len(order) |->
                  [final_sentiment |-> labels[order[i]], created_utc |-> order[i]]]]

untimed_frame(labels) ==
    [columns |-> {"final_sentiment"},
     rows |-> [i \in 1 .. Len(labels) |-> [final_sentiment |-> labels[i]]]]

\* records that carry no final_sentiment
unlabelled_frame(n) ==
    [columns |-> {"created_utc"}, rows |-> [i \in 1 .. n |-> [created_utc |-> i]]]

\* two negative, one neutral, two positive records in ascending time order
RisingLabels == <<"negative", "negative", "neutral", "positive", "positive">>

TrendFrames ==
    UNION {{timed_frame(labels, order) : labels \in [1 .. n -> TrendLabels], order \in Orders(n)}
              \cup {untimed_frame(labels) : labels \in [1 .. n -> TrendLabels]}
              \cup {unlabelled_frame(n)} :
           n \in 0 .. MaxTrendRecords}
    \cup {timed_frame(RisingLabels, order) : order \in AllOrders(Len(RisingLabels))}

InitTrend ==
    /\ call \in [fn : {"calculate_sentiment_trend"},
                  module : {"utils", "utils_fixed"},
                  df : TrendFrames]
    /\ result = NoCall
    /\ pc = "called"
    /\ PipelineIdle

\* utils.py: calculate_sentiment_trend(df)
CallTrend ==
    /\ pc = "called"
    /\ call.fn = "calculate_sentiment_trend"
    /\ call.module = "utils"
    /\ result' \in calculate_sentiment_trend(call.df)
    /\ pc' = "returned"
    /\ UNCHANGED <<call, pipeline_vars>>

\* utils_fixed.py: calculate_sentiment_trend(df)
CallTrendFixed ==
    /\ pc = "called"
    /\ call.fn = "calculate_sentiment_trend"
    /\ call.module = "utils_fixed"
    /\ result' \in calculate_sentiment_trend_fixed(call.df)
    /\ pc' = "returned"
    /\ UNCHANGED <<call, pipeline_vars>>

NextTrend == CallTrend \/ CallTrendFixed

SpecTrend == InitTrend /\ [][NextTrend]_vars

----------------------------------------------------------------------------
(* Properties of calculate_sentiment_trend, checked under SpecTrend.       *)

TrendReturned == pc = "returned" /\ call.fn = "calculate_sentiment_trend"

Timed == "created_utc" \in call.df.columns
Labelled == "final_sentiment" \in call.df.columns
NumRecords == Len(call.df.rows)

\* every record carries one of the three labels
KnownLabels ==
    Labelled /\ \A i \in 1 .. NumRecords : call.df.rows[i].final_sentiment \in Labels

\* +1 / 0 / -1 of the record whose time rank is t
ScoreAt(t) ==
    LET r == CHOOSE r \in 1 .. NumRecords : call.df.rows[r].created_utc = t
        label == call.df.rows[r].final_sentiment
    IN  IF label = "positive" THEN 1 ELSE IF label = "negative" THEN -1 ELSE 0

\* slope of the scores against the index 0 .. n - 1 in time order, as
\* 2 * sum (2x - (n - 1)) y / sum (2x - (n - 1))^2
RefNum == 2 * Sum([t \in 1 .. NumRecords |-> (2 * (t - 1) - (NumRecords - 1)) * ScoreAt(t)], 1)
RefDen == Sum([t \in 1 .. NumRecords |->
                  (2 * (t - 1) - (NumRecords - 1)) * (2 * (t - 1) - (NumRecords - 1))], 1)

\* the classification at the thresholds 0.01 and -0.01
SlopeClass ==
    IF 100 * RefNum > RefDen THEN "improving"
    ELSE IF 100 * RefNum < -RefDen THEN "declining"
    ELSE "stable"

\* C13: with fewer than 2 timestamped records (none, one, or no created_utc
\* column) the result is insufficient_data; with 2 to 4 timestamped records
\* it is the slope classification, not a default.
C13_InsufficientBelowTwo ==
    TrendReturned =>
        /\ (Labelled /\ (~Timed \/ NumRecords < 2)) =>
              (~result.raised /\ result.trend = "insufficient_data")
        /\ (Timed /\ KnownLabels /\ NumRecords >= 2 /\ NumRecords <= 4) =>
              (~result.raised /\ result.trend = SlopeClass)

\* C14: for at least 2 timestamped records the result is improving exactly
\* when the least-squares slope of the +1/0/-1 scores, ordered by created_utc,
\* against their index is above 0.01, declining exactly when it is below
\* -0.01, and stable otherwise.
C14_SlopeClassification ==
    (TrendReturned /\ Timed /\ KnownLabels /\ NumRecords >= 2) =>
        (~result.raised /\ result.trend = SlopeClass)

\* the five records are those of RisingLabels
IsRisingFrame ==
    /\ Timed /\ KnownLabels /\ NumRecords = Len(RisingLabels)
    /\ \A i \in 1 .. NumRecords :
          call.df.rows[i].final_sentiment = RisingLabels[call.df.rows[i].created_utc]

\* C15: five records with distinct created_utc whose sentiments in ascending
\* time order are negative, negative, neutral, positive, positive give
\* improving, in whatever order the records are passed in.
C15_RisingIsImproving ==
    (TrendReturned /\ IsRisingFrame) => (~result.raised /\ result.trend = "improving")

\* the five records were passed newest first and the answer was improving
C15_Witness ==
    /\ TrendReturned /\ IsRisingFrame
    /\ \A i \in 1 .. NumRecords : call.df.rows[i].created_utc = NumRecords + 1 - i
    /\ call.module = "utils"
    /\ result.trend = "improving"

\* the five records were passed in an order that is neither oldest first nor
\* newest first, to the function of utils_fixed.py
C15_ShuffledReached ==
    /\ TrendReturned /\ IsRisingFrame
    /\ call.df.rows[1].created_utc = 3 /\ call.df.rows[2].created_utc = 5
    /\ call.module = "utils_fixed"
    /\ result.trend = "improving"

\* C16: n >= 2 timestamped records that all carry the same one of the three
\* labels give stable.
C16_ConstantIsStable ==
    (TrendReturned /\ Timed /\ KnownLabels /\ NumRecords >= 2
        /\ \A i, j \in 1 .. NumRecords :
              call.df.rows[i].final_sentiment = call.df.rows[j].final_sentiment)
    => (~result.raised /\ result.trend = "stable")

\* five positive records went through the fit of utils.py and came out stable
C16_Witness ==
    /\ TrendReturned /\ Timed /\ KnownLabels /\ NumRecords = 5
    /\ \A i \in 1 .. NumRecords : call.df.rows[i].final_sentiment = "positive"
    /\ call.module = "utils"
    /\ "sentiment_numeric" \in result.df.columns
    /\ result.trend = "stable"

\* two negative records went through the fit of utils_fixed.py
C16_FixedReached ==
    /\ TrendReturned /\ Timed /\ KnownLabels /\ NumRecords = 2
    /\ \A i \in 1 .. NumRecords : call.df.rows[i].final_sentiment = "negative"
    /\ call.module = "utils_fixed"
    /\ result.trend = "stable"

\* C17: calculate_sentiment_trend never raises, whatever the records (no
\* created_utc, a final_sentiment that is none of the three labels, a fit
\* that fails), and answers stable when the fit fails because no record
\* carries a label it can score.
C17_NeverRaises ==
    TrendReturned =>
        /\ ~result.raised
        /\ (Timed /\ Labelled /\ NumRecords >= 2
               /\ \A i \in 1 .. NumRecords : call.df.rows[i].final_sentiment \notin Labels)
           => result.trend = "stable"

----------------------------------------------------------------------------
(* Properties of analyze_batch towards its input, checked under Spec.      *)

\* the item of the batch that a row was built from
ItemOf(row) == data[PositionOf(row.id)]

\* every row's original_text is its item's title, a space and its item's
\* text, character for character (an absent title or text is empty)
OriginalTextIsTitleSpaceText ==
    pc = "analyzed" =>
        \A r \in 1 .. Len(Rows) :
            LET item == ItemOf(Rows[r])
                title == IF "title" \in DOMAIN item THEN item.title ELSE <<>>
                text == IF "text" \in DOMAIN item THEN item.text ELSE <<>>
            IN  /\ Len(Rows[r].original_text) = Len(title) + 1 + Len(text)
                /\ \A k \in 1 .. Len(title) : Rows[r].original_text[k] = title[k]
                /\ Rows[r].original_text[Len(title) + 1] = " "
                /\ \A k \in 1 .. Len(text) :
                      Rows[r].original_text[Len(title) + 1 + k] = text[k]

\* C19: analyze_batch leaves its input as it was (the same items with the
\* same keys and values, in the same order), and each record's original_text
\* is the unmodified title and text joined by one space.
C19_InputUnchangedOriginalKept ==
    /\ [][data' = data]_vars
    /\ []OriginalTextIsTitleSpaceText

\* an item without a title whose text holds a link and a hashtag was analyzed:
\* its record keeps the 27 raw characters after the joining space, while its
\* cleaned_text has 13
C19_Witness ==
    /\ pc = "analyzed"
    /\ \E r \in 1 .. Len(Rows) :
          /\ "title" \notin DOMAIN ItemOf(Rows[r])
          /\ Rows[r].original_text = <<" ">> \o ItemOf(Rows[r]).text
          /\ Len(Rows[r].original_text) = 28
          /\ Len(Rows[r].cleaned_text) = 13

----------------------------------------------------------------------------
(* clean_text called on its own, on texts put together from tokens.        *)

\* what a title or a text is made of: plain words (two of them contain the
\* letters http and www), links with and without the http scheme, a mention,
\* a hashtag and a run of whitespace
TextTokens ==
    { <<"o","k">>,
      <<"h","t","t","p","d">>,
      <<"a","w","w","w","s">>,
      <<"h","t","t","p",":","/","/","t",".","c","o">>,
      <<"w","w","w",".","x",".","i","o">>,
      <<"f","t","p",":","/","/","x",".","y">>,
      <<"@","b","o","b">>,
      <<"#","a","d">>,
      <<"\n"," ">> }

\* what stands between two tokens: nothing, or one space
TokenGlue == {<<>>, <<" ">>}

MaxTokens == 3

\* the texts of up to n tokens
RECURSIVE TextsOf(_)
TextsOf(n) ==
    IF n = 0 THEN {<<>>}
    ELSE IF n = 1 THEN {<<>>} \cup TextTokens
    ELSE LET shorter == TextsOf(n - 1) IN
         shorter \cup {t \o g \o tok : t \in shorter \ {<<>>}, g \in TokenGlue, tok \in TextTokens}

InitCleanText ==
    /\ call \in [fn : {"clean_text"}, text : TextsOf(MaxTokens) \cup {NullText}]
    /\ result = NoCall
    /\ pc = "called"
    /\ PipelineIdle

CallCleanText ==
    /\ pc = "called"
    /\ call.fn = "clean_text"
    /\ result' = [fn |-> "clean_text", text |-> clean_text(call.text)]
    /\ pc' = "returned"
    /\ UNCHANGED <<call, pipeline_vars>>

\* clean_text called on what clean_text returned
CallCleanTextAgain ==
    /\ pc = "returned"
    /\ call.fn = "clean_text"
    /\ result' = [fn |-> "clean_text", text |-> result.text,
                  second |-> clean_text(result.text)]
    /\ pc' = "returned twice"
    /\ UNCHANGED <<call, pipeline_vars>>

NextCleanText == CallCleanText \/ CallCleanTextAgain

SpecCleanText == InitCleanText /\ [][NextCleanText]_vars

----------------------------------------------------------------------------
(* Properties of clean_text, checked under SpecCleanText.                  *)

CleanTextReturned == pc = "returned" /\ call.fn = "clean_text" /\ call.text # NullText

\* the maximal runs of non-whitespace characters of s, from index i on
RECURSIVE Split(_, _)
Split(s, i) ==
    IF i > Len(s) THEN <<>>
    ELSE IF IsSpace(s[i]) THEN Split(s, i + 1)
    ELSE <<SubSeq(s, i, RunEnd(s, i, TRUE) - 1)>> \o Split(s, RunEnd(s, i, TRUE))

\* a token made of letters, digits and underscores only
IsPlainWord(token) == \A k \in 1 .. Len(token) : IsWord(token[k])

\* a occurs in b as a subsequence (the elements of a, in order, among those of b)
RECURSIVE IsSubsequence(_, _)
IsSubsequence(a, b) ==
    IF a = <<>> THEN TRUE
    ELSE IF b = <<>> THEN FALSE
    ELSE IF a[1] = b[1] THEN IsSubsequence(Tail(a), Tail(b))
    ELSE IsSubsequence(a, Tail(b))

\* s holds a URL-shaped substring: a scheme followed by ://, or a token that
\* starts with www.
HasURLShape(s) ==
    \E i \in 1 .. Len(s) :
        \/ i > 1 /\ IsWord(s[i - 1]) /\ StartsWith(s, i, <<":","/","/">>)
        \/ (i = 1 \/ IsSpace(s[i - 1])) /\ StartsWith(s, i, <<"w","w","w",".">>)

\* C20: clean_text removes every URL-shaped substring, whatever its scheme,
\* and every www.-prefixed token, so that none is left in the output; and it
\* removes nothing but those, @mention and #hashtag tokens and surplus
\* whitespace: the plain words of the input, those that contain the letters
\* http or www among them, are all in the output, in their order.
C20_RemovesURLsAndNothingElse ==
    CleanTextReturned =>
        /\ ~HasURLShape(result.text)
        /\ IsSubsequence(SelectSeq(Split(call.text, 1), IsPlainWord), Split(result.text, 1))

\* C20, first half alone: no URL-shaped substring is left in the output
C20_NoURLLeft ==
    CleanTextReturned => ~HasURLShape(result.text)

\* C20, second half alone: every plain word of the input is in the output
C20_PlainWordsKept ==
    CleanTextReturned =>
        IsSubsequence(SelectSeq(Split(call.text, 1), IsPlainWord), Split(result.text, 1))

\* C21: whatever the input, the text returned has no whitespace at either
\* end, no whitespace but single spaces between other characters, and no @
\* or # followed by a word character; for an empty or null input it is the
\* empty string.
C21_CleanTextNormalised ==
    (pc = "returned" /\ call.fn = "clean_text") =>
        LET out == result.text IN
        /\ (call.text = NullText \/ call.text = <<>>) => out = <<>>
        /\ out # <<>> => (~IsSpace(out[1]) /\ ~IsSpace(out[Len(out)]))
        /\ \A i \in 1 .. Len(out) :
              /\ IsSpace(out[i]) => (out[i] = " " /\ ~IsSpace(out[i + 1]))
              /\ (out[i] \in {"@", "#"} /\ i < Len(out)) => ~IsWord(out[i + 1])

\* a mention between two words was removed and the two spaces it left
\* behind came back as one
C21_Witness ==
    /\ pc = "returned" /\ call.fn = "clean_text"
    /\ call.text = <<"o","k"," ">> \o <<"@","b","o","b">> \o <<" ","o","k">>
    /\ result.text = <<"o","k"," ","o","k">>

\* a text that ends in a newline and a space came back without them
C21_TrimmedReached ==
    /\ pc = "returned" /\ call.fn = "clean_text"
    /\ call.text = <<"#","a","d"," ","o","k">> \o <<"\n"," ">>
    /\ result.text = <<"o","k">>

\* the null text came back as the empty string
C21_NullReached ==
    /\ pc = "returned" /\ call.fn = "clean_text"
    /\ call.text = NullText
    /\ result.text = <<>>

\* C27: clean_text applied to what clean_text returned returns it unchanged.
C27_CleanTextIdempotent ==
    (pc = "returned twice" /\ call.fn = "clean_text") => result.second = result.text

\* a text that lost a link, a mention and whitespace in the first pass went
\* through the second pass unchanged
C27_Witness ==
    /\ pc = "returned twice" /\ call.fn = "clean_text"
    /\ call.text = <<"o","k"," ">> \o <<"h","t","t","p",":","/","/","t",".","c","o">>
                       \o <<" ">> \o <<"@","b","o","b">>
    /\ result.text = <<"o","k">>
    /\ result.second = <<"o","k">>

----------------------------------------------------------------------------
(* ensemble_sentiment with its scorers exchanged, checked under            *)
(* SpecEnsemble.                                                           *)

\* C26: ensemble_sentiment(a, b, ca, cb) and ensemble_sentiment(b, a, cb, ca)
\* are the same label and the same confidence, for all labels and confidences.
C26_EnsembleSymmetric ==
    EnsembleReturned =>
        LET swapped == ensemble_sentiment(call.vader_sent, call.textblob_sent,
                                          call.vader_conf, call.textblob_conf)
        IN  /\ result.sentiment = swapped.sentiment
            /\ result.confidence = swapped.confidence

\* the second scorer was the more confident one and its label came back;
\* exchanged, it is the first scorer and wins again
C26_Witness ==
    /\ EnsembleReturned
    /\ call.textblob_sent = "negative" /\ call.vader_sent = "positive"
    /\ call.textblob_conf < call.vader_conf
    /\ result.sentiment = "positive"

----------------------------------------------------------------------------
(* The single-scorer pipeline and the confidence filter, checked under     *)
(* Spec.                                                                   *)

C28_NeutralKeptAtThreshold ==
    /\ variant = "simple" /\ pc = "summarized"
    /\ confidence_threshold = TEXTBLOB_THRESHOLD
    /\ \E r \in 1 .. Len(Rows) :
          Rows[r].final_sentiment = "neutral" /\ Rows[r].final_confidence = TEXTBLOB_THRESHOLD

----------------------------------------------------------------------------
(* calculate_sentiment_trend towards its argument, checked under SpecTrend. *)

\* C30: calculate_sentiment_trend leaves the record collection it is given
\* as it was: the same columns, the same values, the same row order.
C30_TrendLeavesFrameUnchanged ==
    TrendReturned => result.df = call.df

\* the frame after the call has a column it did not have before
C30_ColumnAdded ==
    /\ TrendReturned
    /\ call.module = "utils"
    /\ "sentiment_numeric" \notin call.df.columns
    /\ "sentiment_numeric" \in result.df.columns

----------------------------------------------------------------------------
(* The Streamlit app, src/app.py and src/app_fixed_colors.py.  Every       *)
(* interaction with a widget reruns the script main() from the top; the    *)
(* widgets keep their values between reruns, st.session_state carries      *)
(* analysis_data, summary_stats, last_brand and uploaded_data from one     *)
(* rerun to the next.  Times are hours relative to now.                    *)

\* app.py:115-126: the Python None stored in st.session_state
NoneObject == [is_none |-> TRUE]

Tesla == <<"T","e","s","l","a">>
Nike == <<"N","i","k","e">>
\* a text_input value that the brand pattern rejects
BadBrand == <<"T","!">>

\* the sentences of collect_sample_data, cut to their first words
continues == <<" ","c","o","n","t","i","n","u","e","s">>
recent == <<"R","e","c","e","n","t">>
mixed_reviews == <<"M","i","x","e","d"," ","r","e","v","i","e","w","s">>
customers == <<"C","u","s","t","o","m","e","r","s">>
\* headlines of the news feed and cells of the uploaded files
rises == <<" ","r","i","s","e","s">>
recall == <<" ","r","e","c","a","l","l">>
ok == <<"o","k">>
great == <<"g","r","e","a","t">>
slow == <<"s","l","o","w">>
service == <<"s","e","r","v","i","c","e">>

UpperToLower ==
    [A |-> "a", B |-> "b", C |-> "c", D |-> "d", E |-> "e", F |-> "f", G |-> "g",
     H |-> "h", I |-> "i", J |-> "j", K |-> "k", L |-> "l", M |-> "m", N |-> "n",
     O |-> "o", P |-> "p", Q |-> "q", R |-> "r", S |-> "s", T |-> "t", U |-> "u",
     V |-> "v", W |-> "w", X |-> "x", Y |-> "y", Z |-> "z"]

\* str.lower()
lower(s) ==
    [i \in 1 .. Len(s) |->
        IF s[i] \in DOMAIN UpperToLower THEN UpperToLower[s[i]] ELSE s[i]]

\* utils.py:11
MIN_BRAND_LENGTH == 2

\* the class [a-zA-Z0-9\s'\-&.] of utils.py:14
IsBrandChar(c) == (IsWord(c) /\ c # "_") \/ IsSpace(c) \/ c \in {"'", "-", "&", "."}

\* utils.py:7-16
validate_brand_input(brand) ==
    /\ Strip(brand) # <<>>
    /\ Len(Strip(brand)) >= MIN_BRAND_LENGTH
    /\ \A i \in 1 .. Len(Strip(brand)) : IsBrandChar(Strip(brand)[i])

\* data_collector.py:97-125; score, num_comments and the age are drawn by
\* random.randint and only copied: one draw stands for them
collect_sample_data(brand) ==
    << [id |-> <<"sample", lower(brand), 1>>,
        title |-> brand \o continues,
        text |-> recent,
        score |-> 120, num_comments |-> 20, created_utc |-> -24,
        subreddit |-> "sample_data", url |-> <<"example.com", lower(brand)>>,
        source |-> "sample_backup", keyword |-> lower(brand)],
       [id |-> <<"sample", lower(brand), 2>>,
        title |-> mixed_reviews,
        text |-> customers,
        score |-> 30, num_comments |-> 10, created_utc |-> -36,
        subreddit |-> "sample_data", url |-> <<"example.com", lower(brand), 2>>,
        source |-> "sample_backup", keyword |-> lower(brand)] >>

\* data_collector.py:39: root.findall('.//item')[:25]
NEWS_LIMIT == 25
\* app.py:511,533,582: days_back, left at the slider's default
DAYS_BACK == 7
HOURS_PER_DAY == 24

\* the request failed: no response, a status other than 200, or a body
\* that is not XML
FeedFailed == [ok |-> FALSE, items |-> <<>>]

\* data_collector.py:42-87: the loop over the items of the feed from idx on
\* (idx counts from 0); an item older than days_back is skipped
RECURSIVE news_articles(_, _, _, _)
news_articles(brand, items, idx, days_back) ==
    IF idx >= Len(items) THEN <<>>
    ELSE LET item == items[idx + 1] IN
         IF item.pub_date < -(days_back * HOURS_PER_DAY)
         THEN news_articles(brand, items, idx + 1, days_back)
         ELSE << [id |-> <<"news", lower(brand), idx + 1>>,
                  title |-> item.title,
                  text |-> IF item.description # <<>> THEN item.description
                           ELSE item.title,
                  score |-> 80, num_comments |-> 25, created_utc |-> item.pub_date,
                  subreddit |-> "google_news", url |-> item.link,
                  source |-> "google_news_live", keyword |-> lower(brand)] >>
              \o news_articles(brand, items, idx + 1, days_back)

\* data_collector.py:21-95: every exception ends in the articles
\* collected so far, none when the request failed
collect_live_news(brand, feed, days_back) ==
    IF ~feed.ok THEN <<>>
    ELSE news_articles(brand, SubSeq(feed.items, 1, IF Len(feed.items) < NEWS_LIMIT
                                                     THEN Len(feed.items)
                                                     ELSE NEWS_LIMIT),
                       0, days_back)

\* the cells of a CSV file: its header and its rows; parses is FALSE for
\* bytes pd.read_csv rejects
CSV(columns, rows) == [exists |-> TRUE, parses |-> TRUE, columns |-> columns, rows |-> rows]
NotCSV == [exists |-> TRUE, parses |-> FALSE, columns |-> {}, rows |-> <<>>]

\* data_collector.py:141-161: the post built from row idx (from 0) of a
\* file with no optional column
custom_post(row, idx) ==
    [id |-> <<"custom", idx + 1>>,
     title |-> row.title,
     text |-> row.text,
     score |-> 0, num_comments |-> 0, created_utc |-> -idx,
     subreddit |-> "custom", url |-> <<"custom.com", idx + 1>>,
     source |-> "custom_upload", keyword |-> "unknown"]

\* data_collector.py:127-166: [] when the file cannot be read or lacks
\* a required column
load_custom_csv(file) ==
    IF ~file.exists \/ ~file.parses THEN <<>>
    ELSE IF ~({"title", "text"} \subseteq file.columns) THEN <<>>
    ELSE [i \in 1 .. Len(file.rows) |-> custom_post(file.rows[i], i - 1)]

(* What the user and the network can supply.                               *)

\* a brand of the selectbox, another one, and a rejected text input
Brands == {Tesla, Nike, BadBrand}
ValidBrands == {brand \in Brands : validate_brand_input(brand)}

\* app.py:586: st.slider("Maximum posts to analyze:", 10, 100, 50)
MIN_MAX_ARTICLES == 10
DEFAULT_MAX_ARTICLES == 50
MaxArticlesChoices == {MIN_MAX_ARTICLES, DEFAULT_MAX_ARTICLES}

\* app_fixed_colors.py:207: st.slider("Maximum posts:", 50, 500, 100)
DEFAULT_MAX_POSTS == 100

\* app.py:587: the confidence slider at its default and at its maximum
AppThresholds == {t \in SliderValues : t \in {0, ONE}}

\* app.py:621: len(raw_data) < 5
MIN_LIVE_ARTICLES == 5

\* the pubDate of an item one day older than days_back allows
OLD_PUB_DATE == -(HOURS_PER_DAY * (DAYS_BACK + 1))

\* a feed of MIN_LIVE_ARTICLES recent headlines about the brand
FreshFeed(brand) ==
    [ok |-> TRUE,
     items |-> [i \in 1 .. MIN_LIVE_ARTICLES |->
                   [title |-> brand \o (IF i % 2 = 1 THEN rises ELSE recall),
                    description |-> <<>>,
                    link |-> <<"news.google.com", i>>,
                    pub_date |-> -i]]]

\* the same feed with its third item too old to be kept
StaleFeed(brand) ==
    [ok |-> TRUE,
     items |-> [i \in 1 .. MIN_LIVE_ARTICLES |->
                   IF i = 3
                   THEN [FreshFeed(brand).items[i] EXCEPT !.pub_date = OLD_PUB_DATE]
                   ELSE FreshFeed(brand).items[i]]]

\* what Google News can answer to the search for the brand
Feeds(brand) == {FeedFailed, StaleFeed(brand), FreshFeed(brand)}

\* files the user can upload: bytes that are no CSV (an empty file), a
\* CSV without the required columns, one row of two short cells, and one
\* row more than the smallest max_articles
MissingColumns == CSV({"headline"}, <<[headline |-> great \o <<" ">> \o service]>>)
ShortUpload == CSV({"title", "text"}, <<[title |-> ok, text |-> ok]>>)
LongUpload ==
    CSV({"title", "text"},
        [i \in 1 .. MIN_MAX_ARTICLES + 1 |->
            [title |-> IF i % 2 = 1 THEN great ELSE slow, text |-> service]])
Uploads == {NotCSV, MissingColumns, ShortUpload, LongUpload}

\* t contains the phrase
Contains(t, phrase) == \E i \in 1 .. Len(t) : StartsWith(t, i, phrase)

(* The script main().                                                      *)

\* app.py:115-126, app_fixed_colors.py:140-149
initialize_session_state ==
    [analysis_data |-> NoneObject, summary_stats |-> NoneObject,
     last_brand |-> <<>>, uploaded_data |-> NoneObject]

\* the widgets as they are drawn the first time: the first brand of the
\* selectbox, the first data source, no file, the sliders at their defaults
DefaultWidgets ==
    [brand |-> Tesla, data_source |-> "live", uploaded_file |-> NoFile,
     max_articles |-> DEFAULT_MAX_ARTICLES, confidence_threshold |-> 0]

DataSources == {"live", "sample", "upload"}

\* app.py:556-566: a file is in the uploader and pd.read_csv accepts it
use_uploaded_data(w) ==
    /\ w.data_source = "upload"
    /\ w.uploaded_file.exists
    /\ w.uploaded_file.parses

\* app.py:564: st.session_state.uploaded_data = uploaded_file
sidebar(session, w) ==
    IF use_uploaded_data(w) THEN [session EXCEPT !.uploaded_data = w.uploaded_file]
    ELSE session

\* app.py:599, app_fixed_colors.py:218
triggers_run(session, w, run_analysis) == run_analysis \/ session.last_brand # w.brand

\* app.py:628: elif use_uploaded_data and st.session_state.uploaded_data is not None
takes_upload_branch(session, w) ==
    /\ use_uploaded_data(w)
    /\ session.uploaded_data # NoneObject

\* app.py:618-640: the raw_data of a run; feed is what Google News answered,
\* file is what load_custom_csv found at temp_path
collect(session, w, feed, file) ==
    IF w.data_source = "live"
    THEN LET raw_data == collect_live_news(w.brand, feed, DAYS_BACK) IN
         IF raw_data = <<>> \/ Len(raw_data) < MIN_LIVE_ARTICLES
         THEN raw_data \o collect_sample_data(w.brand)
         ELSE raw_data
    ELSE IF takes_upload_branch(session, w)
    THEN LET raw_data == load_custom_csv(file) IN
         IF raw_data = <<>> THEN collect_sample_data(w.brand) ELSE raw_data
    ELSE collect_sample_data(w.brand)

\* the truncation keeping the last max_articles items
limit_keeps_last(raw_data, max_articles) ==
    IF Len(raw_data) > max_articles
    THEN SubSeq(raw_data, Len(raw_data) - max_articles + 1, Len(raw_data))
    ELSE raw_data

\* app.py:647-648: raw_data[:max_articles]
limit(raw_data, max_articles) ==
    IF Len(raw_data) > max_articles THEN SubSeq(raw_data, 1, max_articles)
    ELSE raw_data

\* every raw_data a run of app.py can collect, whatever file is at temp_path
AppRawData ==
    UNION {{collect([uploaded_data |-> uploaded],
                    [brand |-> brand, data_source |-> source,
                     uploaded_file |-> uploaded], feed, file) :
                source \in DataSources, uploaded \in Uploads,
                feed \in Feeds(brand), file \in Uploads \cup {NoFile}} :
           brand \in ValidBrands}

\* every batch a run can hand to analyze_batch
AppBatches ==
    AppRawData \cup {limit(raw_data, max_articles) :
                        raw_data \in AppRawData, max_articles \in MaxArticlesChoices}

Elements(seq) == {seq[i] : i \in 1 .. Len(seq)}

\* TextBlob on the texts of the app: a fixed function of the cleaned text,
\* here lukewarm on "Mixed reviews" and "slow", negative on "recall" and
\* positive on everything else
textblob_app ==
    [t \in {cleaned_of(item) : item \in UNION {Elements(batch) : batch \in AppBatches}} |->
        IF Contains(t, mixed_reviews) \/ Contains(t, slow)
        THEN Returns(TEXTBLOB_THRESHOLD)
        ELSE IF Contains(t, recall) THEN Returns(-ONE)
        ELSE Returns(ONE)]

\* analyzer.analyze_batch on the batches of the app, each evaluated once
analyses == [batch \in AppBatches |-> analyze_batch(batch, textblob_app)]

\* analyzer.analyze_batch(raw_data) with TextBlob as it answers in the app
analyze(batch) == analyses[batch]

\* app.py:644-676: from raw_data to the stored pair.  The outcome is
\* "stored", "raised" (the KeyError of line 655) or "no data" (line 675)
analyze_and_store(session, raw_data, w) ==
    IF raw_data = <<>>
    THEN [outcome |-> "no data", session |-> session, batch |-> <<>>]
    ELSE LET batch == limit(raw_data, w.max_articles)
             df == analyze(batch)
         IN  IF filter_raises(df, w.confidence_threshold)
             THEN [outcome |-> "raised", session |-> session, batch |-> batch]
             ELSE LET filtered == confidence_filter(df, w.confidence_threshold) IN
                  [outcome |-> "stored",
                   session |-> [session EXCEPT
                                   !.analysis_data = filtered,
                                   !.summary_stats = get_summary_stats(filtered)],
                   batch |-> batch]

\* app_fixed_colors.py:241-247: no truncation, no filter, no else branch
analyze_and_store_fixed_colors(session, raw_data) ==
    IF raw_data = <<>>
    THEN [outcome |-> "no data", session |-> session, batch |-> <<>>]
    ELSE LET df == analyze(raw_data) IN
         [outcome |-> "stored",
          session |-> [session EXCEPT !.analysis_data = df,
                                      !.summary_stats = get_summary_stats(df)],
          batch |-> raw_data]

\* app.py:679, app_fixed_colors.py:257:
\* analysis_data is not None and not analysis_data.empty
shows_results(session) ==
    /\ session.analysis_data # NoneObject
    /\ session.analysis_data.rows # <<>>

\* app.py:762, app_fixed_colors.py:349: display_analysis_results hands
\* st.session_state.analysis_data itself to calculate_sentiment_trend
display_analysis_results(session) ==
    {[session EXCEPT !.analysis_data = r.df] :
        r \in calculate_sentiment_trend(session.analysis_data)}

\* the reset that also forgets the brand
reset_forgets_brand(session) ==
    [session EXCEPT !.analysis_data = NoneObject, !.summary_stats = NoneObject,
                    !.last_brand = <<>>]

\* app.py:838-839, app_fixed_colors.py:437-438
reset(session) ==
    [session EXCEPT !.analysis_data = NoneObject, !.summary_stats = NoneObject]

(* One rerun of the script per interaction.  A run that takes the upload   *)
(* branch writes temp_upload.csv and reads it back with load_custom_csv:   *)
(* between the two another session's script can run, so the rerun is two   *)
(* steps there and one step everywhere else.                               *)

Apps == {"app", "app_fixed_colors"}

\* the widgets of app_fixed_colors.py: sample data only, max_posts
\* (never read), no confidence slider
DefaultWidgetsOf(app) ==
    IF app = "app" THEN DefaultWidgets
    ELSE [DefaultWidgets EXCEPT !.data_source = "sample",
                                !.max_articles = DEFAULT_MAX_POSTS]

\* the script of a session that has not run yet.  outcome says how the
\* latest run of the script ended: "invalid brand", "no run", "stored",
\* "raised" or "no data"; raw_data and batch are its locals
NewScript(app) ==
    [app |-> app, pc |-> "opened", outcome |-> "none", raw_data |-> <<>>,
     batch |-> <<>>, displayed |-> FALSE]

\* the script ends (it returns, or an exception leaves main)
Ends(s, session, outcome, raw_data, batch, displayed) ==
    /\ session_state' = [session_state EXCEPT ![s] = session]
    /\ script' = [script EXCEPT ![s] =
                     [@ EXCEPT !.pc = "done", !.outcome = outcome,
                               !.raw_data = raw_data, !.batch = batch,
                               !.displayed = displayed]]

\* app.py:678-686, app_fixed_colors.py:256-264: the results or the welcome
Display(s, session, outcome, raw_data, batch) ==
    IF shows_results(session)
    THEN \E shown \in display_analysis_results(session) :
            Ends(s, shown, outcome, raw_data, batch, TRUE)
    ELSE Ends(s, session, outcome, raw_data, batch, FALSE)

\* app.py:663-686, app_fixed_colors.py:246-264: the end of a run with the
\* outcome run; the KeyError and the return of the else branch skip the
\* display
FinishRun(s, raw_data, run) ==
    IF run.outcome = "raised" \/ (run.outcome = "no data" /\ script[s].app = "app")
    THEN Ends(s, run.session, run.outcome, raw_data, run.batch, FALSE)
    ELSE Display(s, run.session, run.outcome, raw_data, run.batch)

\* app.py:644-686, app_fixed_colors.py:241-264: from raw_data to the end
RunFrom(s, session, w, raw_data) ==
    FinishRun(s, raw_data,
              IF script[s].app = "app" THEN analyze_and_store(session, raw_data, w)
              ELSE analyze_and_store_fixed_colors(session, raw_data))

\* the widgets after a run with the values w: a return at the brand check
\* leaves the rest of the sidebar undrawn, and Streamlit forgets the value
\* of a widget that was not drawn
widgets_kept(app, w) ==
    IF validate_brand_input(w.brand) THEN w
    ELSE [DefaultWidgetsOf(app) EXCEPT !.brand = w.brand]

\* main() of session s from the top, with session state session0 and the
\* widget values w
RunScript(s, session0, w, run_analysis) ==
    LET app == script[s].app
        session == IF app = "app" THEN sidebar(session0, w) ELSE session0
        started == [session EXCEPT !.last_brand = w.brand]
    IN
    /\ script[s].pc # "wrote temp_upload"
    /\ widgets' = [widgets EXCEPT ![s] = widgets_kept(app, w)]
    /\ IF ~validate_brand_input(w.brand)
       THEN /\ Ends(s, session0, "invalid brand", <<>>, <<>>, FALSE)
            /\ UNCHANGED temp_upload
       ELSE IF ~triggers_run(session, w, run_analysis)
       THEN /\ Display(s, session, "no run", <<>>, <<>>)
            /\ UNCHANGED temp_upload
       ELSE IF app = "app" /\ w.data_source # "live" /\ takes_upload_branch(started, w)
       THEN /\ temp_upload' = started.uploaded_data
            /\ session_state' = [session_state EXCEPT ![s] = started]
            /\ script' = [script EXCEPT ![s] =
                             [@ EXCEPT !.pc = "wrote temp_upload", !.outcome = "none",
                                       !.raw_data = <<>>, !.batch = <<>>,
                                       !.displayed = FALSE]]
       ELSE /\ \E feed \in (IF w.data_source = "live" THEN Feeds(w.brand)
                            ELSE {FeedFailed}) :
                  RunFrom(s, started, w,
                          IF app = "app" THEN collect(started, w, feed, NoFile)
                          ELSE collect_sample_data(w.brand))
            /\ UNCHANGED temp_upload
    /\ UNCHANGED <<call, result, pc, core_vars>>

\* app.py:634-676: load_custom_csv(temp_path) and the rest of the run
LoadTempUpload(s) ==
    /\ script[s].pc = "wrote temp_upload"
    /\ RunFrom(s, session_state[s], widgets[s],
               collect(session_state[s], widgets[s], FeedFailed, temp_upload))
    /\ UNCHANGED <<widgets, temp_upload, call, result, pc, core_vars>>

\* the page is opened: the script runs with the default widget values
OpenPage(s) ==
    /\ script[s].pc = "opened"
    /\ RunScript(s, session_state[s], widgets[s], FALSE)

\* the sidebar below the brand is drawn only for a valid brand
SidebarDrawn(s) ==
    /\ script[s].pc = "done"
    /\ validate_brand_input(widgets[s].brand)

\* app.py:465-477: another brand is selected or typed
SelectBrand(s) ==
    /\ script[s].pc = "done"
    /\ \E brand \in Brands \ {widgets[s].brand} :
          RunScript(s, session_state[s], [widgets[s] EXCEPT !.brand = brand], FALSE)

\* app.py:487: another data source; a file uploader that is drawn anew is empty
SelectDataSource(s) ==
    /\ SidebarDrawn(s)
    /\ script[s].app = "app"
    /\ \E source \in DataSources \ {widgets[s].data_source} :
          RunScript(s, session_state[s],
                    [widgets[s] EXCEPT !.data_source = source,
                                       !.uploaded_file = NoFile], FALSE)

\* app.py:550: a file is put into the uploader
UploadFile(s) ==
    /\ SidebarDrawn(s)
    /\ script[s].app = "app"
    /\ widgets[s].data_source = "upload"
    /\ \E file \in Uploads \ {widgets[s].uploaded_file} :
          RunScript(s, session_state[s], [widgets[s] EXCEPT !.uploaded_file = file], FALSE)

\* app.py:586
SetMaxArticles(s) ==
    /\ SidebarDrawn(s)
    /\ script[s].app = "app"
    /\ \E max_articles \in MaxArticlesChoices \ {widgets[s].max_articles} :
          RunScript(s, session_state[s],
                    [widgets[s] EXCEPT !.max_articles = max_articles], FALSE)

\* app.py:587
SetConfidenceThreshold(s) ==
    /\ SidebarDrawn(s)
    /\ script[s].app = "app"
    /\ \E threshold \in AppThresholds \ {widgets[s].confidence_threshold} :
          RunScript(s, session_state[s],
                    [widgets[s] EXCEPT !.confidence_threshold = threshold], FALSE)

\* app.py:592, app_fixed_colors.py:211: the Run button
PressRun(s) ==
    /\ SidebarDrawn(s)
    /\ RunScript(s, session_state[s], widgets[s], TRUE)

\* app.py:836-840, app_fixed_colors.py:435-439: the button under the
\* results.  The script runs up to the button, clears the pair, and
\* st.rerun() runs it again from the top.
PressReset(s) ==
    /\ script[s].pc = "done"
    /\ script[s].displayed
    /\ \E shown \in display_analysis_results(
                        IF script[s].app = "app"
                        THEN sidebar(session_state[s], widgets[s])
                        ELSE session_state[s]) :
          RunScript(s, reset(shown), widgets[s], FALSE)

Sessions == DOMAIN script

\* one browser session
InitApp ==
    /\ call = NoCall
    /\ result = NoCall
    /\ pc = "app"
    /\ CoreIdle
    /\ temp_upload = NoFile
    /\ \E app \in Apps :
          /\ session_state = [s \in {"s1"} |-> initialize_session_state]
          /\ widgets = [s \in {"s1"} |-> DefaultWidgetsOf(app)]
          /\ script = [s \in {"s1"} |-> NewScript(app)]

NextApp ==
    \/ \E s \in Sessions : OpenPage(s)
    \/ \E s \in Sessions : SelectBrand(s)
    \/ \E s \in Sessions : SelectDataSource(s)
    \/ \E s \in Sessions : UploadFile(s)
    \/ \E s \in Sessions : SetMaxArticles(s)
    \/ \E s \in Sessions : SetConfidenceThreshold(s)
    \/ \E s \in Sessions : PressRun(s)
    \/ \E s \in Sessions : PressReset(s)
    \/ \E s \in Sessions : LoadTempUpload(s)

SpecApp == InitApp /\ [][NextApp]_vars

(* Two browser sessions of app.py on one server.  Streamlit runs the       *)
(* script of each session on its own thread with nothing to order them.    *)
(* Both users have opened the page while Google News was unreachable,      *)
(* chosen the upload source and put a file into the uploader.              *)

\* the session state after those three reruns, the last with file uploaded
uploaded_session(file) ==
    sidebar(analyze_and_store([initialize_session_state EXCEPT !.last_brand = Tesla],
                              collect(initialize_session_state, DefaultWidgets,
                                      FeedFailed, NoFile),
                              DefaultWidgets).session,
            [DefaultWidgets EXCEPT !.data_source = "upload", !.uploaded_file = file])

InitConcurrent ==
    /\ call = NoCall
    /\ result = NoCall
    /\ pc = "app"
    /\ CoreIdle
    /\ temp_upload = NoFile
    /\ \E files \in [{"s1", "s2"} -> Uploads] :
          /\ session_state = [s \in {"s1", "s2"} |-> uploaded_session(files[s])]
          /\ widgets = [s \in {"s1", "s2"} |->
                           [DefaultWidgets EXCEPT !.data_source = "upload",
                                                  !.uploaded_file = files[s]]]
          /\ script = [s \in {"s1", "s2"} |->
                          [NewScript("app") EXCEPT !.pc = "done",
                                                   !.outcome = "no run",
                                                   !.displayed = TRUE]]

NextConcurrent ==
    \/ \E s \in Sessions : UploadFile(s)
    \/ \E s \in Sessions : PressRun(s)
    \/ \E s \in Sessions : LoadTempUpload(s)

SpecConcurrent == InitConcurrent /\ [][NextConcurrent]_vars

----------------------------------------------------------------------------
(* Claims about the app session.                                           *)

\* the script of session s has run to its end
Done(s) == script[s].pc = "done"

\* the latest run of the script of s reached the collectors
RanAnalysis(s) == Done(s) /\ script[s].outcome \in {"stored", "raised", "no data"}

\* the ids of the rows of a DataFrame, in order
IdsOf(df) == [i \in 1 .. Len(df.rows) |-> df.rows[i].id]

\* what the latest run of app.py in session s had to store: the analysis
\* of its batch, filtered with the threshold of that run
Expected(s) ==
    confidence_filter(analyze(script[s].batch), widgets[s].confidence_threshold)

\* C23: in every session state the stored pair is consistent: analysis_data
\* and summary_stats are both None, or analysis_data is exactly the analyzed
\* records at or above the threshold of the run, in analyze order, and
\* summary_stats is get_summary_stats of that collection.
C23_StoredPairConsistent ==
    \A s \in Sessions :
        /\ (session_state[s].analysis_data = NoneObject)
              <=> (session_state[s].summary_stats = NoneObject)
        /\ (Done(s) /\ script[s].outcome = "stored" /\ script[s].app = "app") =>
              /\ session_state[s].analysis_data = Expected(s)
              /\ session_state[s].summary_stats = get_summary_stats(Expected(s))

\* apart from the column the display adds, the pair is the expected one
C23_ConsistentUpToAddedColumn ==
    \A s \in Sessions :
        /\ (session_state[s].analysis_data = NoneObject)
              <=> (session_state[s].summary_stats = NoneObject)
        /\ (Done(s) /\ script[s].outcome = "stored" /\ script[s].app = "app") =>
              /\ session_state[s].analysis_data \in
                    {Expected(s), with_sentiment_numeric(Expected(s))}
              /\ session_state[s].summary_stats = get_summary_stats(Expected(s))

\* C24: a triggered run always hands analyze_batch a non-empty batch, never
\* reaches the "No data could be collected" branch, and always stores a
\* result.
C24_RunAlwaysStores ==
    \A s \in Sessions :
        RanAnalysis(s) => script[s].batch # <<>> /\ script[s].outcome = "stored"

\* the fallbacks alone: the batch is never empty, the error branch never taken
C24_BatchNeverEmpty ==
    \A s \in Sessions :
        RanAnalysis(s) => script[s].batch # <<>> /\ script[s].outcome # "no data"

\* a run that fell back to sample items
C24_FallbackReached ==
    \E s \in Sessions :
        /\ RanAnalysis(s)
        /\ widgets[s].data_source = "upload"
        /\ widgets[s].uploaded_file = MissingColumns
        /\ script[s].raw_data = collect_sample_data(widgets[s].brand)

\* C25: the batch handed to analyze_batch has at most max_articles items and
\* is the prefix, in collected order, of the collected items; the stored
\* analysis has at most max_articles records, all of them from that prefix.
C25_BatchIsBoundedPrefix ==
    \A s \in Sessions :
        RanAnalysis(s) =>
            LET raw_data == script[s].raw_data
                batch == script[s].batch
                stored == session_state[s].analysis_data
            IN  /\ Len(batch) <= widgets[s].max_articles
                /\ Len(batch) <= Len(raw_data)
                /\ batch = SubSeq(raw_data, 1, Len(batch))
                /\ script[s].outcome = "stored" =>
                      /\ Len(stored.rows) <= widgets[s].max_articles
                      /\ \A i \in 1 .. Len(stored.rows) :
                            \E k \in 1 .. Len(batch) :
                               /\ k <= widgets[s].max_articles
                               /\ raw_data[k].id = stored.rows[i].id

\* more items were collected than max_articles allows, and a result is stored
C25_Witness ==
    \E s \in Sessions :
        /\ RanAnalysis(s)
        /\ script[s].outcome = "stored"
        /\ Len(script[s].raw_data) > widgets[s].max_articles
        /\ Len(session_state[s].analysis_data.rows) = widgets[s].max_articles

\* fewer items than max_articles: the batch is all of them
C25_WholeKept ==
    \E s \in Sessions :
        /\ RanAnalysis(s)
        /\ Len(script[s].raw_data) = MIN_MAX_ARTICLES + 1
        /\ script[s].batch = script[s].raw_data

\* the script of s ran in this step with a valid brand that is not last_brand
BrandChanged(s) ==
    /\ script'[s] # script[s]
    /\ script[s].pc # "wrote temp_upload"
    /\ validate_brand_input(widgets'[s].brand)
    /\ widgets'[s].brand # session_state[s].last_brand

\* an analysis run started in this step
RunStarted(s) ==
    \/ script'[s].pc = "wrote temp_upload"
    \/ script'[s].outcome \in {"stored", "raised", "no data"}

\* the results displayed come from a batch collected for the selected brand
DisplayedForSelectedBrand(s) ==
    /\ \E feed \in Feeds(widgets[s].brand) :
          script[s].raw_data =
              IF script[s].app = "app"
              THEN collect(session_state[s], widgets[s], feed, temp_upload)
              ELSE collect_sample_data(widgets[s].brand)
    /\ IdsOf(session_state[s].analysis_data)
          = IdsOf(IF script[s].app = "app" THEN Expected(s)
                  ELSE analyze(script[s].batch))

C29_OtherBrandDisplayed ==
    \E s \in Sessions :
        /\ RanAnalysis(s)
        /\ script[s].displayed
        /\ session_state[s].last_brand = Nike

\* the script returned at the brand check: last_brand is not the input
C29_InvalidBrandReached ==
    \E s \in Sessions :
        /\ Done(s)
        /\ script[s].outcome = "invalid brand"
        /\ session_state[s].last_brand # widgets[s].brand

\* in every rerun, with or without a run, the news and sample records
\* displayed are about the selected brand
C29_NeverStaleResults ==
    \A s \in Sessions :
        (Done(s) /\ script[s].displayed) =>
            \A i \in 1 .. Len(session_state[s].analysis_data.rows) :
                LET row == session_state[s].analysis_data.rows[i] IN
                row.source # "custom_upload" => row.keyword = lower(widgets[s].brand)

\* what the latest run of session s stores when it runs alone: it reads
\* back the file it wrote itself
Alone(s) ==
    analyze_and_store(session_state[s],
                      collect(session_state[s], widgets[s], FeedFailed,
                              session_state[s].uploaded_data),
                      widgets[s])

\* C22: requests running concurrently without synchronization do not
\* interfere: whatever the interleaving, the records and the summary of
\* each request are those it produces running alone on its own input.
C22_NoInterference ==
    \A s \in Sessions :
        (RanAnalysis(s) /\ script[s].app = "app" /\ widgets[s].data_source # "live") =>
            /\ script[s].outcome = Alone(s).outcome
            /\ script[s].outcome = "stored" =>
                  /\ IdsOf(session_state[s].analysis_data)
                        = IdsOf(Alone(s).session.analysis_data)
                  /\ session_state[s].summary_stats = Alone(s).session.summary_stats

\* the state in which the two sessions start is one a single session reaches
C22_StartReachable ==
    \E s \in Sessions, file \in Uploads :
        /\ session_state[s] = uploaded_session(file)
        /\ widgets[s] = [DefaultWidgets EXCEPT !.data_source = "upload",
                                               !.uploaded_file = file]
        /\ script[s] = [NewScript("app") EXCEPT !.pc = "done", !.outcome = "no run",
                                                !.displayed = TRUE]

====
